---- MODULE Spec2Model ----
(***************************************************************************)
(* EventBot: query routing workflow (ManagerAgent / Orchestrator /         *)
(* CombinerAgent), PDF table extraction with the schema registry, the      *)
(* table stores and the bulk data clearing service.                        *)
(*                                                                         *)
(* Text values are sequences of tokens; the token " " is whitespace, every *)
(* other token is a non-whitespace word.  The empty sequence is the empty  *)
(* string.  An Optional[str] is a record [some, v].                        *)
(***************************************************************************)
EXTENDS Integers, Sequences, FiniteSets, TLC

VARIABLES
    \* ---- query subsystem -------------------------------------------------
    orch,        \* Orchestrator fields (which agents were supplied)
    mgr,         \* ManagerAgent fields (which sub-agents are not None)
    builtBy,     \* "none" | "create_app" | "direct"
    pc,          \* position of the request being processed
    st,          \* AgentState of the running workflow
    nodes,       \* workflow nodes executed so far for this request
    caught,      \* places where an exception was caught for this request
    called,      \* agents the orchestrator delegated this request to
    ragSource,   \* where rag_response came from
    llmCalls,    \* number of combiner LLM merge calls for this request
    decision,    \* routing decision taken by the manager node
    result,      \* response returned to the caller
    routed,      \* router reply of this request and the queries handed to agents
    api,         \* last response of the POST /answer route of routes/chat.py
    \* ---- CombinerAgent.combine_responses called on its own ----------------
    cin,         \* arguments of the call and the outcome of the LLM merge
    cout,        \* reply of the call and the number of LLM calls it made
    \* ---- stored data and PDF uploads --------------------------------------
    registry,    \* schema registry file table_schema.json: name -> entry
    db,          \* relational database: table name -> rows
    proc,        \* one PDFProcessor per upload: its fields and position
    pinecone,    \* uploads whose text embeddings are in the Pinecone index
    \* ---- maintenance operations and clear-all-data ------------------------
    backup,      \* schema backup file written by backup_schemas
    clr,         \* DataClearService.clear_all_data: position and results
    ops,         \* maintenance operations run so far and the last one
    \* ---- agents and routes called on their own ----------------------------
    ta,          \* TableAgent.process_query: position, connection, cursor
    bot,         \* ChatbotAgent.answer_question / upload_data: last call
    flask,       \* app.py: EventBot instance and the last request served
    \* ---- routes/chat.py PDFProcessor.extract_content ----------------------
    ext          \* the lists it builds and its position in the document

qvars == <<orch, mgr, builtBy, pc, st, nodes, caught, called, ragSource, llmCalls,
           decision, result, routed, api>>
cvars == <<cin, cout>>
dvars == <<registry, db>>
uvars == <<proc, pinecone>>
mvars == <<backup, clr, ops>>
xvars == <<ta, bot, flask>>
evars == <<ext>>

\* variables outside the query subsystem
nonQ == <<cvars, dvars, uvars, mvars, xvars, evars>>

-----------------------------------------------------------------------------
(* Text helpers                                                            *)

WS == " "

RECURSIVE LStrip(_)
LStrip(t) == IF t # <<>> /\ Head(t) = WS THEN LStrip(Tail(t)) ELSE t

RECURSIVE RStrip(_)
RStrip(t) == IF t # <<>> /\ t[Len(t)] = WS THEN RStrip(SubSeq(t, 1, Len(t) - 1)) ELSE t

\* str.strip()
Strip(t) == RStrip(LStrip(t))

\* Optional[str]
None == [some |-> FALSE, v |-> <<>>]
Some(t) == [some |-> TRUE, v |-> t]

\* Python truthiness of an Optional[str]: not None and not ""
Truthy(o) == o.some /\ o.v # <<>>

\* `x if x else None`
OrNone(t) == IF t # <<>> THEN Some(t) ELSE None

\* variant: the first operand is used even when it is empty
OrElse_first(a, b) == a

\* `a or b` on strings
OrElse(a, b) == IF a # <<>> THEN a ELSE b

\* str.lower() on the router statuses and file extensions the model draws
Lower(s) ==
    CASE s = "TABLE" -> "table"
      [] s = "Both"  -> "both"
      [] s = "PDF"   -> "pdf"
      [] OTHER       -> s

-----------------------------------------------------------------------------
(* CombinerAgent                                                           *)

NoResponseApology == <<"I apologize, but I wasn't able to generate a response to your query.">>
CombineError == <<"I encountered an error while combining the responses.">>
NoResponseCould == <<"No response could be generated for your query.">>
NoInfoFrom(source_type) == <<"No information available from", source_type>>
Blank == "\n\n"

\* outcome of the Gemini merge call: it raises, or returns a content text
LLMRaise == [raises |-> TRUE, content |-> <<>>]
LLMContent(t) == [raises |-> FALSE, content |-> t]

_format_single_response(response, source_type) ==
    IF Strip(response) # <<>> THEN response ELSE NoInfoFrom(source_type)

\* mutant: the parts are joined without being stripped
_simple_combination_unstripped(table_response, rag_response) ==
    IF rag_response # <<>> /\ table_response # <<>>
    THEN rag_response \o <<Blank>> \o table_response
    ELSE IF rag_response # <<>> THEN rag_response
    ELSE IF table_response # <<>> THEN table_response
    ELSE NoResponseCould

_simple_combination(table_response, rag_response) ==
    LET ragPart == IF rag_response # <<>> /\ Strip(rag_response) # <<>>
                   THEN <<Strip(rag_response)>> ELSE <<>>
        tabPart == IF table_response # <<>> /\ Strip(table_response) # <<>>
                   THEN <<Strip(table_response)>> ELSE <<>>
        parts == ragPart \o tabPart
    IN  IF Len(parts) = 2 THEN parts[1] \o <<Blank>> \o parts[2]
        ELSE IF Len(parts) = 1 THEN parts[1]
        ELSE NoResponseCould

_create_intelligent_combination(table_response, rag_response, llm) ==
    IF llm.raises
    THEN _simple_combination(table_response, rag_response)
    ELSE Strip(llm.content)

\* TRUE iff combine_responses invokes the LLM
CombinerCallsLLM(table_response, rag_response) ==
    Truthy(table_response) /\ Truthy(rag_response)

combine_responses(table_response, rag_response, llm) ==
    IF Truthy(table_response) /\ ~Truthy(rag_response)
    THEN _format_single_response(table_response.v, "data analysis")
    ELSE IF Truthy(rag_response) /\ ~Truthy(table_response)
    THEN _format_single_response(rag_response.v, "knowledge base")
    ELSE IF Truthy(table_response) /\ Truthy(rag_response)
    THEN _create_intelligent_combination(table_response.v, rag_response.v, llm)
    ELSE NoResponseApology

-----------------------------------------------------------------------------
(* Orchestrator, create_app and the ManagerAgent workflow                  *)

Queries == {<<>>, <<"q">>}
SubQueries == {<<>>, <<"sub">>}
RouterStatuses == {"table", "rag", "both", "TABLE", "Both", "other"}
MergeContents == {<<"merged">>, <<WS, "merged", WS>>, <<WS>>}
LegacyOutcomes == {"ok", "fail", "raise"}

\* parameters of TableAgent.process_query besides self, and the number of
\* arguments the table node passes to it
TableAgentParams == 1
TableNodeArgs == 2

\* ChatbotAgent.answer_question(question, top_k) has no pdf_uuid parameter
AnswerQuestionAcceptsPdfUuid == FALSE

ServiceUnavailable == <<"Service temporarily unavailable.">>
OrchestratorError == <<"An error occurred while processing your question.">>
ManagerError == <<"I encountered an error while processing your question.">>
LegacyApology == <<"I'm sorry, I encountered an error while processing your question.">>
LegacyAnswer == <<"legacy answer">>
AgentExceptionText == "agent raised"
RagAnswer == <<"retrieved answer">>
TableAnswer == <<"table answer">>

NoResult == [kind |-> "none", success |-> FALSE, answer |-> <<>>, error |-> "none"]
NoOrch == [present |-> FALSE, chatbot_agent |-> FALSE, manager_agent |-> FALSE,
           is_functional |-> FALSE, use_manager |-> FALSE]
NoMgr == [chatbot_agent |-> FALSE, table_agent |-> FALSE, combiner_agent |-> FALSE]

\* nothing was routed or handed to an agent yet
NoReply == [kind |-> "none", status |-> "other", rag |-> <<>>, table |-> <<>>]
NoRouted == [reply |-> NoReply, table |-> None, rag |-> None]

\* no request reached POST /answer yet
NoApi == [returned |-> FALSE, status |-> 0, detail |-> "none", query |-> <<>>,
          agent_calls |-> 0]

\* AgentState(query=query)
AgentState(q) ==
    [query |-> q, response |-> <<>>, needs_table |-> FALSE, needs_rag |-> FALSE,
     table_response |-> <<>>, rag_response |-> <<>>,
     table_sub_query |-> <<>>, rag_sub_query |-> <<>>]

\* mutant: the legacy agent is preferred when both agents are supplied
OrchestratorInit_prefers_legacy(chatbot_agent, manager_agent) ==
    [present |-> TRUE, chatbot_agent |-> chatbot_agent, manager_agent |-> manager_agent,
     is_functional |-> chatbot_agent \/ manager_agent,
     use_manager |-> manager_agent /\ ~chatbot_agent]

\* Orchestrator.__init__
OrchestratorInit(chatbot_agent, manager_agent) ==
    [present |-> TRUE, chatbot_agent |-> chatbot_agent, manager_agent |-> manager_agent,
     is_functional |-> chatbot_agent \/ manager_agent,
     use_manager |-> manager_agent]

\* ManagerAgent.__init__: which collaborators are not None
ManagerAgentInit(chatbot_agent, tableOk, combinerOk) ==
    [chatbot_agent |-> chatbot_agent, table_agent |-> tableOk, combiner_agent |-> combinerOk]

QIdle ==
    /\ pc = "boot" /\ builtBy = "none" /\ orch = NoOrch /\ mgr = NoMgr
    /\ st = AgentState(<<>>) /\ nodes = <<>> /\ caught = {} /\ called = <<>>
    /\ ragSource = "none" /\ llmCalls = 0 /\ decision = "none" /\ result = NoResult
    /\ routed = NoRouted /\ api = NoApi

\* create_app(): the Manager Agent is built without a chatbot agent; the
\* legacy ChatbotAgent is only built when the Manager Agent failed
create_app(orchestratorOk, managerOk, chatbotOk, tableOk, combinerOk) ==
    /\ pc = "boot"
    /\ LET manager_agent == managerOk
           chatbot_agent == (~managerOk) /\ chatbotOk
       IN  IF orchestratorOk
           THEN /\ orch' = OrchestratorInit(chatbot_agent, manager_agent)
                /\ mgr' = IF manager_agent
                          THEN ManagerAgentInit(FALSE, tableOk, combinerOk)
                          ELSE NoMgr
           ELSE /\ orch' = NoOrch
                /\ mgr' = NoMgr
    /\ builtBy' = "create_app"
    /\ pc' = "ready"
    /\ UNCHANGED <<st, nodes, caught, called, ragSource, llmCalls, decision, result, routed, api, nonQ>>

\* direct construction: ManagerAgent(gemini_api_key, chatbot_agent) and
\* Orchestrator(chatbot_agent, manager_agent)
ConstructDirect(chatbot_agent, manager_agent, tableOk, combinerOk) ==
    /\ pc = "boot"
    /\ orch' = OrchestratorInit(chatbot_agent, manager_agent)
    /\ mgr' = IF manager_agent
              THEN ManagerAgentInit(chatbot_agent, tableOk, combinerOk)
              ELSE NoMgr
    /\ builtBy' = "direct"
    /\ pc' = "ready"
    /\ UNCHANGED <<st, nodes, caught, called, ragSource, llmCalls, decision, result, routed, api, nonQ>>

\* Orchestrator.process_query with no agent: fixed unavailable answer
ProcessQueryUnavailable(q) ==
    /\ pc = "ready" /\ orch.present /\ ~orch.is_functional
    /\ result' = [kind |-> "unavailable", success |-> FALSE,
                  answer |-> ServiceUnavailable, error |-> "No agents initialized"]
    /\ st' = AgentState(q)
    /\ nodes' = <<>> /\ caught' = {} /\ called' = <<>>
    /\ ragSource' = "none" /\ llmCalls' = 0
    /\ decision' = "none"
    /\ pc' = "done"
    /\ routed' = NoRouted
    /\ UNCHANGED <<orch, mgr, builtBy, api, nonQ>>

\* Orchestrator.process_query delegating to the legacy chatbot agent
ProcessQueryLegacy(q, outcome) ==
    /\ pc = "ready" /\ orch.present /\ orch.is_functional /\ ~orch.use_manager
    /\ called' = <<"chatbot">>
    /\ result' = CASE outcome = "ok" ->
                        [kind |-> "legacy", success |-> TRUE,
                         answer |-> LegacyAnswer, error |-> "none"]
                   [] outcome = "fail" ->
                        [kind |-> "legacy", success |-> FALSE,
                         answer |-> LegacyApology, error |-> "agent error"]
                   [] OTHER ->
                        [kind |-> "orchestrator_except", success |-> FALSE,
                         answer |-> OrchestratorError, error |-> AgentExceptionText]
    /\ caught' = IF outcome = "raise" THEN {"orchestrator"}
                 ELSE IF outcome = "fail" THEN {"chatbot_agent"} ELSE {}
    /\ st' = AgentState(q)
    /\ nodes' = <<>> /\ ragSource' = "none" /\ llmCalls' = 0
    /\ decision' = "none"
    /\ pc' = "done"
    /\ routed' = NoRouted
    /\ UNCHANGED <<orch, mgr, builtBy, api, nonQ>>

\* Orchestrator.process_query delegating to ManagerAgent.process_query,
\* which builds the initial AgentState and enters the workflow
ProcessQueryManager(q) ==
    /\ pc = "ready" /\ orch.present /\ orch.is_functional /\ orch.use_manager
    /\ called' = <<"manager">>
    /\ st' = AgentState(q)
    /\ nodes' = <<>> /\ caught' = {} /\ ragSource' = "none" /\ llmCalls' = 0
    /\ result' = NoResult
    /\ decision' = "none"
    /\ pc' = "manager"
    /\ routed' = NoRouted
    /\ UNCHANGED <<orch, mgr, builtBy, api, nonQ>>

\* variant: a query that only needs the rag agent is routed to END
_decide_route_rag_ends(s) ==
    IF s.needs_table /\ s.needs_rag THEN "both"
    ELSE IF s.needs_table THEN "table_only"
    ELSE "end"

_decide_route(s) ==
    IF s.needs_table /\ s.needs_rag THEN "both"
    ELSE IF s.needs_table THEN "table_only"
    ELSE IF s.needs_rag THEN "rag_only"
    ELSE "end"

\* mutant: the table node always hands over to the combiner
_after_table_route_skips_rag(s) == "to_combiner"

_after_table_route(s) == IF s.needs_rag THEN "to_rag" ELSE "to_combiner"

\* conditional edges of _create_workflow
ManagerEdge(route) ==
    CASE route = "table_only" -> "table"
      [] route = "rag_only"   -> "rag"
      [] route = "both"       -> "table"
      [] OTHER                -> "end"

TableEdge(route) ==
    CASE route = "to_rag"      -> "rag"
      [] route = "to_combiner" -> "combiner"
      [] OTHER                 -> "end"

\* router replies the model draws: the call raises, the reply is not JSON,
\* or it is a JSON object with a status and two sub-queries
RouterReplies ==
    {[kind |-> "raise", status |-> "other", rag |-> <<>>, table |-> <<>>],
     [kind |-> "badjson", status |-> "other", rag |-> <<>>, table |-> <<>>]}
    \cup [kind : {"json"}, status : RouterStatuses, rag : SubQueries, table : SubQueries]

\* the state update computed by _manager_node
ManagerDecision(s, reply) ==
    LET status == Lower(reply.status)
    IN  IF reply.kind # "json"
        THEN [s EXCEPT !.needs_table = FALSE, !.needs_rag = TRUE,
                       !.rag_sub_query = s.query]
        ELSE IF status = "table"
        THEN [s EXCEPT !.needs_table = TRUE, !.needs_rag = FALSE,
                       !.table_sub_query = OrElse(reply.table, s.query)]
        ELSE IF status = "rag"
        THEN [s EXCEPT !.needs_table = FALSE, !.needs_rag = TRUE,
                       !.rag_sub_query = OrElse(reply.rag, s.query)]
        ELSE IF status = "both"
        THEN [s EXCEPT !.needs_table = TRUE, !.needs_rag = TRUE,
                       !.table_sub_query = OrElse(reply.table, s.query),
                       !.rag_sub_query = OrElse(reply.rag, s.query)]
        ELSE [s EXCEPT !.needs_table = FALSE, !.needs_rag = TRUE,
                       !.rag_sub_query = s.query]

_manager_node(reply) ==
    /\ pc = "manager"
    /\ st' = ManagerDecision(st, reply)
    /\ caught' = IF reply.kind # "json" THEN caught \cup {"manager_node"} ELSE caught
    /\ nodes' = Append(nodes, "manager")
    /\ decision' = IF reply.kind = "json" THEN Lower(reply.status) ELSE "error"
    /\ pc' = ManagerEdge(_decide_route(st'))
    /\ routed' = [routed EXCEPT !.reply = reply]
    /\ UNCHANGED <<orch, mgr, builtBy, called, ragSource, llmCalls, result, api, nonQ>>

\* the table_response computed by _table_node and whether the call raised
TableNodeRaises == mgr.table_agent /\ TableNodeArgs > TableAgentParams

TableNodeResponse(s) ==
    LET query_to_use == OrElse(s.table_sub_query, s.query)
    IN  IF mgr.table_agent
        THEN IF TableNodeArgs > TableAgentParams
             THEN <<"Error processing data query: ">> \o query_to_use
             ELSE TableAnswer
        ELSE <<"Error: Table processing unavailable for query: ">> \o query_to_use

_table_node ==
    /\ pc = "table"
    /\ st' = [st EXCEPT !.table_response = TableNodeResponse(st)]
    /\ caught' = IF TableNodeRaises THEN caught \cup {"table_node"} ELSE caught
    /\ nodes' = Append(nodes, "table")
    /\ pc' = TableEdge(_after_table_route(st))
    /\ routed' = [routed EXCEPT !.table = IF mgr.table_agent
                                           THEN Some(OrElse(st.table_sub_query, st.query))
                                           ELSE None]
    /\ UNCHANGED <<orch, mgr, builtBy, called, ragSource, llmCalls, decision, result, api, nonQ>>

\* the rag_response computed by _rag_node and its origin
RagNodeSource ==
    IF mgr.chatbot_agent
    THEN IF AnswerQuestionAcceptsPdfUuid THEN "agent" ELSE "error"
    ELSE "placeholder"

RagNodeResponse(s) ==
    LET query_to_use == OrElse(s.rag_sub_query, s.query)
    IN  CASE RagNodeSource = "agent" -> RagAnswer
          [] RagNodeSource = "error" -> <<"RAG processing error: ">> \o query_to_use
          [] OTHER -> <<"RAG processing: ">> \o query_to_use

_rag_node ==
    /\ pc = "rag"
    /\ st' = [st EXCEPT !.rag_response = RagNodeResponse(st)]
    /\ ragSource' = RagNodeSource
    /\ caught' = IF RagNodeSource = "error" THEN caught \cup {"rag_node"} ELSE caught
    /\ nodes' = Append(nodes, "rag")
    /\ pc' = "combiner"
    /\ routed' = [routed EXCEPT !.rag = IF mgr.chatbot_agent
                                         THEN Some(OrElse(st.rag_sub_query, st.query))
                                         ELSE None]
    /\ UNCHANGED <<orch, mgr, builtBy, called, llmCalls, decision, result, api, nonQ>>

\* fallback of _combiner_node when no CombinerAgent is available
CombinerFallback(s) ==
    IF s.table_response # <<>> /\ s.rag_response # <<>>
    THEN s.rag_response \o <<Blank>> \o s.table_response
    ELSE IF s.table_response # <<>> THEN s.table_response
    ELSE IF s.rag_response # <<>> THEN s.rag_response
    ELSE <<"No response generated">>

_combiner_node(llm) ==
    /\ pc = "combiner"
    /\ LET tr == OrNone(st.table_response)
           rr == OrNone(st.rag_response)
           usesLLM == mgr.combiner_agent /\ CombinerCallsLLM(tr, rr)
       IN  /\ st' = [st EXCEPT !.response =
                        IF mgr.combiner_agent
                        THEN combine_responses(tr, rr, llm)
                        ELSE CombinerFallback(st)]
           /\ llmCalls' = IF usesLLM THEN llmCalls + 1 ELSE llmCalls
           /\ caught' = IF usesLLM /\ llm.raises
                        THEN caught \cup {"combiner_merge"} ELSE caught
    /\ nodes' = Append(nodes, "combiner")
    /\ pc' = "end"
    /\ UNCHANGED <<orch, mgr, builtBy, called, ragSource, decision, result, routed, api, nonQ>>

\* END of the workflow: ManagerAgent.process_query builds the response and
\* Orchestrator.process_query returns it unchanged
ReturnResponse ==
    /\ pc = "end"
    /\ result' = [kind |-> "manager", success |-> TRUE,
                  answer |-> st.response, error |-> "none"]
    /\ pc' = "done"
    /\ UNCHANGED <<orch, mgr, builtBy, st, nodes, caught, called, ragSource, llmCalls, decision, routed, api, nonQ>>

\* request bodies of POST /answer and what the agent does with the query
BodyQueries == {<<>>, <<WS>>, <<"q">>, <<WS, "q">>}
AgentOutcomes == {"ok", "fail", "raise"}

\* get_chatbot_agent: the dependency of the routes of routes/chat.py
get_chatbot_agent == orch.chatbot_agent

\* POST /answer of routes/chat.py on the application built by create_app
AnswerRoute(body, outcome) ==
    /\ pc = "ready" /\ builtBy = "create_app"
    /\ LET query == Strip(body)
       IN  api' = IF ~get_chatbot_agent
                  THEN [returned |-> TRUE, status |-> 500,
                        detail |-> "ChatbotAgent not initialized",
                        query |-> body, agent_calls |-> 0]
                  ELSE IF query = <<>>
                  THEN [returned |-> TRUE, status |-> 400,
                        detail |-> "Empty query provided",
                        query |-> body, agent_calls |-> 0]
                  ELSE IF outcome = "raise"
                  THEN [returned |-> TRUE, status |-> 500,
                        detail |-> "An error occurred while processing your question.",
                        query |-> body, agent_calls |-> 1]
                  ELSE [returned |-> TRUE, status |-> 200, detail |-> "answer",
                        query |-> body, agent_calls |-> 1]
    /\ UNCHANGED <<orch, mgr, builtBy, pc, st, nodes, caught, called, ragSource, llmCalls,
                   decision, result, routed, nonQ>>

\* the caller issues the next request on the same application
NextRequest ==
    /\ pc = "done"
    /\ pc' = "ready"
    /\ UNCHANGED <<orch, mgr, builtBy, st, nodes, caught, called, ragSource, llmCalls, decision, result, routed, api, nonQ>>

QNext ==
    \/ \E o, m, c, t, k \in BOOLEAN : create_app(o, m, c, t, k)
    \/ \E c, m, t, k \in BOOLEAN : ConstructDirect(c, m, t, k)
    \/ \E q \in Queries : ProcessQueryUnavailable(q)
    \/ \E q \in Queries, o \in LegacyOutcomes : ProcessQueryLegacy(q, o)
    \/ \E q \in Queries : ProcessQueryManager(q)
    \/ \E r \in RouterReplies : _manager_node(r)
    \/ _table_node
    \/ _rag_node
    \/ \E llm \in {LLMRaise} \cup {LLMContent(t) : t \in MergeContents} : _combiner_node(llm)
    \/ ReturnResponse
    \/ \E b \in BodyQueries, o \in AgentOutcomes : AnswerRoute(b, o)
    \/ NextRequest

-----------------------------------------------------------------------------
(* CombinerAgent.combine_responses as a call of its own                    *)

OptTexts ==
    {None} \cup {Some(t) : t \in {<<>>, <<WS>>, <<"a">>, <<WS, "a">>, <<"a", WS, "b">>}}
LLMOutcomes == {LLMRaise} \cup {LLMContent(t) : t \in MergeContents}

NotRun == [ran |-> FALSE, reply |-> <<>>, llm_calls |-> 0, raised |-> FALSE]
CIdle == cin = [table |-> None, rag |-> None, llm |-> LLMRaise] /\ cout = NotRun

CInit == /\ cin \in [table : OptTexts, rag : OptTexts, llm : LLMOutcomes]
         /\ cout = NotRun

CombineCall ==
    /\ ~cout.ran
    /\ cout' = [ran |-> TRUE,
                reply |-> combine_responses(cin.table, cin.rag, cin.llm),
                llm_calls |-> IF CombinerCallsLLM(cin.table, cin.rag) THEN 1 ELSE 0,
                raised |-> FALSE]
    /\ UNCHANGED <<cin, qvars, dvars, uvars, mvars, xvars, evars>>

-----------------------------------------------------------------------------
(* Schema registry, relational database and PDFProcessor (pdf_processor)   *)

MaxUploads == 2      \* uploads (PDFProcessor instances) in one run
MaxFragments == 3    \* table fragments read from all uploaded PDFs together
MaxDim == 2          \* rows and columns of one extracted fragment

Procs == 1..MaxUploads

\* a table name: <<base, pdf id, table index, suffix>>
LLMNames == {<<"sales", 0, 0, 0>>}
FallbackName(pdf_uuid, table_index) == <<"pdf", pdf_uuid, table_index, 0>>

\* f[name] = value added to (or replaced in) the mapping f
Put(f, name, value) ==
    [n \in DOMAIN f \cup {name} |-> IF n = name THEN value ELSE f[n]]

Empty == [n \in {} |-> 0]

NoTable == [present |-> FALSE, name |-> <<"none", 0, 0, 0>>, column_count |-> 0,
            data |-> 0, fragments |-> 0]
NoFragment == [rows |-> 0, cols |-> 0]
NoDecision == [kind |-> "none", cols |-> 0, column_count |-> 0, had_current |-> FALSE,
               asked |-> FALSE, reply |-> "none"]
NoResponse == [returned |-> FALSE, success |-> FALSE, tables_info |-> <<>>,
               text_chunks_stored |-> 0]

NewProc ==
    [pc |-> "new", schemas |-> Empty, metadata |-> {}, current |-> NoTable,
     stored_tables |-> <<>>, pending |-> NoFragment, nfrag |-> 0,
     last |-> NoDecision, started |-> <<>>, finalized |-> <<>>, caught |-> {},
     response |-> NoResponse]

DIdle == registry = Empty /\ db = Empty
UIdle == proc = [p \in Procs |-> NewProc] /\ pinecone = {}

\* no other upload is being processed (process_pdf_upload runs its blocking
\* body to the end before the worker serves the next request)
Alone(p) ==
    /\ \A q \in Procs : q < p => proc[q].pc = "done"
    /\ \A q \in Procs : q > p => proc[q].pc = "new"

\* the request is over: the PDFProcessor and its MetaData are dropped
Dropped(me) ==
    [me EXCEPT !.pc = "done", !.schemas = Empty, !.metadata = {},
               !.current = NoTable, !.pending = NoFragment, !.last = NoDecision]

RECURSIVE FragmentsRead(_)
FragmentsRead(k) == IF k = 0 THEN 0 ELSE proc[k].nfrag + FragmentsRead(k - 1)

MoreFragments == FragmentsRead(MaxUploads) < MaxFragments

\* PDFProcessor.__init__: fresh MetaData, schemas loaded from the file
PDFProcessorInit(p) ==
    /\ proc[p].pc = "new"
    /\ proc' = [proc EXCEPT ![p].pc = "loop", ![p].schemas = registry]
    /\ UNCHANGED <<registry, db, pinecone, qvars, cvars, mvars, xvars, evars>>

\* the cleaned table of a raw r x c grid: transposed when it has fewer rows
\* than columns
Cleaned(r, c) == IF r < c THEN [rows |-> c, cols |-> r] ELSE [rows |-> r, cols |-> c]

\* replies of the continuation check: the JSON status value, a reply without
\* status, unparseable JSON, or a failed call
ContinuationReplies == {"true", "false", "text", "missing", "badjson", "raise"}

\* truthiness of the value _query_gemini_for_continuation returns
_query_gemini_for_continuation(reply) == reply \in {"true", "text"}

\* variant: the width of the fragment is not compared
ContinuationCandidate_any_width(cur, frag) == cur.present

\* the fragment is only checked against a current table of equal width
ContinuationCandidate(cur, frag) == cur.present /\ frag.cols = cur.column_count

\* a fragment that is empty after cleaning is skipped
SkipFragment(p) ==
    /\ proc[p].pc = "loop" /\ MoreFragments
    /\ proc' = [proc EXCEPT ![p].nfrag = @ + 1,
                            ![p].last = [NoDecision EXCEPT !.kind = "skip"]]
    /\ UNCHANGED <<registry, db, pinecone, qvars, cvars, mvars, xvars, evars>>

\* one iteration of the table loop up to the continuation decision
Fragment(p, r, c, reply) ==
    /\ proc[p].pc = "loop" /\ MoreFragments
    /\ LET frag == Cleaned(r, c)
           cur == proc[p].current
           asked == ContinuationCandidate(cur, frag)
           is_continuation == asked /\ _query_gemini_for_continuation(reply)
           verdict == [kind |-> IF is_continuation THEN "append" ELSE "new",
                       cols |-> frag.cols, column_count |-> cur.column_count,
                       had_current |-> cur.present, asked |-> asked,
                       reply |-> IF asked THEN reply ELSE "none"]
       IN  /\ (~asked) => reply = "raise"
           /\ proc' = [proc EXCEPT
                 ![p].nfrag = @ + 1,
                 ![p].last = verdict,
                 ![p].caught = IF asked /\ reply \in {"badjson", "raise"}
                               THEN @ \cup {"continuation"} ELSE @,
                 ![p].current = IF is_continuation
                                THEN [cur EXCEPT !.data = @ + frag.rows,
                                                 !.fragments = @ + 1]
                                ELSE cur,
                 ![p].pending = IF is_continuation THEN NoFragment ELSE frag,
                 ![p].pc = IF is_continuation THEN "loop"
                           ELSE IF cur.present THEN "finalize" ELSE "start"]
    /\ UNCHANGED <<registry, db, pinecone, qvars, cvars, mvars, xvars, evars>>

StoreOutcomes == {"ok", "early_fail", "create_fail", "insert_fail"}

\* variant: the tables of the MetaData are dropped and created again
CreateAll_recreating(database, metadata) ==
    [n \in DOMAIN database \cup metadata |->
        IF n \in metadata THEN <<>> ELSE database[n]]

\* metadata.create_all: every table of the MetaData missing in the database
\* is created empty
CreateAll(database, metadata) ==
    [n \in DOMAIN database \cup metadata |->
        IF n \in DOMAIN database THEN database[n] ELSE <<>>]

RECURSIVE Rows(_, _)
Rows(tag, k) == IF k = 0 THEN <<>> ELSE <<tag>> \o Rows(tag, k - 1)

\* _store_table_with_schema: the result and the new database, MetaData and
\* in-memory schemas; `valid` rows pass validation
StoreTableEffect(p, outcome, valid) ==
    LET me == proc[p]
        info == me.current
        unchanged == [ok |-> FALSE, db |-> db, metadata |-> me.metadata,
                      schemas |-> me.schemas, saved |-> FALSE]
        defined == me.metadata \cup {info.name}
        created == CreateAll(db, defined)
        data_rows == info.data - 1
    IN  IF outcome = "early_fail" \/ info.name \in me.metadata
        THEN unchanged
        ELSE IF outcome = "create_fail"
        THEN [unchanged EXCEPT !.metadata = defined]
        ELSE IF data_rows = 0 \/ valid = 0 \/ outcome = "insert_fail"
        THEN [unchanged EXCEPT !.metadata = defined, !.db = created]
        ELSE [ok |-> TRUE,
              db |-> [created EXCEPT ![info.name] = @ \o Rows(p, valid)],
              metadata |-> defined,
              schemas |-> IF info.name \in DOMAIN me.schemas
                          THEN [me.schemas EXCEPT ![info.name].status = "complete",
                                                  ![info.name].rows_stored = valid]
                          ELSE me.schemas,
              saved |-> info.name \in DOMAIN me.schemas]

\* numbers of rows that can pass validation: none, all but one, all
ValidCounts(data_rows) == {k \in {0, data_rows - 1, data_rows} : k >= 0}

\* finalizing the current table (before a new one, or at the end of the
\* document): _store_table_with_schema and the stored_tables bookkeeping
StoreTable(p, outcome, valid) ==
    /\ proc[p].pc \in {"finalize", "last"}
    /\ valid \in ValidCounts(proc[p].current.data - 1)
    /\ LET me == proc[p]
           eff == StoreTableEffect(p, outcome, valid)
       IN  /\ db' = eff.db
           /\ registry' = IF eff.saved THEN eff.schemas ELSE registry
           /\ proc' = [proc EXCEPT
                 ![p].metadata = eff.metadata,
                 ![p].schemas = eff.schemas,
                 ![p].finalized = Append(@, me.current.name),
                 ![p].caught = IF eff.ok \/ (outcome = "ok" /\ valid = 0
                                             /\ me.current.data > 1
                                             /\ me.current.name \notin me.metadata)
                               THEN @ ELSE @ \cup {"store_table"},
                 ![p].stored_tables =
                     IF eff.ok
                     THEN Append(@, [name |-> me.current.name,
                                     rows |-> me.current.data - 1])
                     ELSE @,
                 ![p].pc = IF me.pc = "finalize" THEN "start" ELSE "return"]
    /\ UNCHANGED <<pinecone, qvars, cvars, mvars, xvars, evars>>

\* schema inference replies: a parsed schema with the LLM's table name, or a
\* failure that falls back to pdf_<uuid>_table_<index>
SchemaReplies == [ok : {TRUE}, name : LLMNames] \cup
                 {[ok |-> FALSE, name |-> <<"none", 0, 0, 0>>]}

_query_gemini_for_schema(reply, pdf_uuid, table_index) ==
    IF reply.ok THEN reply.name ELSE FallbackName(pdf_uuid, table_index)

\* a new table: schema inference, the 'processing' registry entry saved to
\* the file, and the new current TableInfo
StartTable(p, reply) ==
    /\ proc[p].pc = "start"
    /\ LET me == proc[p]
           global_table_index == Len(me.stored_tables) + 1
           name == _query_gemini_for_schema(reply, p, global_table_index)
           entry == [status |-> "processing", pdf_uuid |-> p, rows_stored |-> 0]
           schemas == Put(me.schemas, name, entry)
       IN  /\ registry' = schemas
           /\ proc' = [proc EXCEPT
                 ![p].schemas = schemas,
                 ![p].caught = IF reply.ok THEN @ ELSE @ \cup {"schema"},
                 ![p].started = Append(@, name),
                 ![p].current = [present |-> TRUE, name |-> name,
                                 column_count |-> me.pending.cols,
                                 data |-> me.pending.rows, fragments |-> 1],
                 ![p].pending = NoFragment,
                 ![p].pc = "loop"]
    /\ UNCHANGED <<db, pinecone, qvars, cvars, mvars, xvars, evars>>

\* variant: the table still open at the end of the document is not stored
EndOfDocument_skips_last(p) ==
    /\ proc[p].pc = "loop"
    /\ proc' = [proc EXCEPT ![p].pc = "return"]
    /\ UNCHANGED <<registry, db, pinecone, qvars, cvars, mvars, xvars, evars>>

\* all pages were read
EndOfDocument(p) ==
    /\ proc[p].pc = "loop"
    /\ proc' = [proc EXCEPT ![p].pc = IF proc[p].current.present THEN "last" ELSE "return"]
    /\ UNCHANGED <<registry, db, pinecone, qvars, cvars, mvars, xvars, evars>>

\* pdfplumber raises while a page is read: extract_and_store_content raises
\* ValueError and process_pdf_upload answers 500 with success = false
ExtractionFails(p) ==
    /\ proc[p].pc = "loop"
    /\ proc' = [proc EXCEPT ![p] = [Dropped(@) EXCEPT
          !.caught = @ \cup {"process_pdf_upload"},
          !.response = [returned |-> TRUE, success |-> FALSE,
                        tables_info |-> <<>>, text_chunks_stored |-> 0]]]
    /\ UNCHANGED <<registry, db, pinecone, qvars, cvars, mvars, xvars, evars>>

\* extract_and_store_content returns; process_pdf_upload stores the text
\* embeddings (0 stored when that fails) and answers success = true
ReturnUpload(p, embeddingsOk) ==
    /\ proc[p].pc = "return"
    /\ proc' = [proc EXCEPT ![p] = [Dropped(@) EXCEPT
          !.caught = IF embeddingsOk THEN @ ELSE @ \cup {"store_text_embeddings"},
          !.response = [returned |-> TRUE, success |-> TRUE,
                        tables_info |-> proc[p].stored_tables,
                        text_chunks_stored |-> IF embeddingsOk THEN 1 ELSE 0]]]
    /\ pinecone' = IF embeddingsOk THEN pinecone \cup {p} ELSE pinecone
    /\ UNCHANGED <<registry, db, qvars, cvars, mvars, xvars, evars>>

\* the steps of the upload being served
UInit == \E p \in Procs : Alone(p) /\ PDFProcessorInit(p)
USkip == \E p \in Procs : Alone(p) /\ SkipFragment(p)
UFragment ==
    \E p \in Procs, r \in 1..MaxDim, c \in 1..MaxDim, reply \in ContinuationReplies :
        Alone(p) /\ Fragment(p, r, c, reply)
UStore ==
    \E p \in Procs, o \in StoreOutcomes, v \in 0..(MaxFragments * MaxDim) :
        Alone(p) /\ StoreTable(p, o, v)
UStart == \E p \in Procs, reply \in SchemaReplies : Alone(p) /\ StartTable(p, reply)
UEnd == \E p \in Procs : Alone(p) /\ EndOfDocument(p)
UFail == \E p \in Procs : Alone(p) /\ ExtractionFails(p)
UReturn == \E p \in Procs, e \in BOOLEAN : Alone(p) /\ ReturnUpload(p, e)

-----------------------------------------------------------------------------
(* Other operations on the stored data: the older PDFProcessor.store_table  *)
(* (routes/chat.py), table_extraction save_table, SchemaManager and         *)
(* DataClearService                                                         *)

MaxOps == 2          \* maintenance operations in one run
DataFragments == 1   \* table fragments read while maintenance operations run
MaxRows == 2         \* rows of a table handed to store_table or save_table

\* one upload of a run with concurrent requests reads DataFragments fragments
OneMore(p) == proc[p].nfrag < DataFragments

FileHashes == {0}
MetaTable == <<"extracted_table_meta", 0, 0, 0>>

NoBackup == [written |-> FALSE, schemas |-> Empty]
NoClearResult == [returned |-> FALSE, success |-> FALSE, summary |-> <<>>]
ClearIdle == [pc |-> "idle", attempted |-> <<>>,
              operations |-> [pinecone |-> FALSE, mysql |-> FALSE, table_schema |-> FALSE],
              result |-> NoClearResult]

MIdle == backup = NoBackup /\ clr = ClearIdle /\ ops = [count |-> 0, last |-> "none"]

\* no request is being served
Quiet == clr.pc = "idle" /\ \A p \in Procs : proc[p].pc \in {"new", "done"}

\* a maintenance operation starts
Begin(name) ==
    /\ Quiet /\ ops.count < MaxOps
    /\ ops' = [count |-> ops.count + 1, last |-> name]

\* rows written by the maintenance operation being run
OpTag == 0 - (ops.count + 1)

Without(f, names) == [n \in DOMAIN f \ names |-> f[n]]

\* chat.py _table_exists: reflection of the table succeeds
_table_exists(table_name) == table_name \in DOMAIN db

\* the loop of store_table: base, base_1, base_2, ... until a name for which
\* _table_exists is false
RECURSIVE UnusedName(_, _)
UnusedName(base, count) ==
    LET table_name == IF count = 0 THEN base ELSE [base EXCEPT ![4] = count]
    IN  IF _table_exists(table_name) THEN UnusedName(base, count + 1) ELSE table_name

StoreTableOutcomes == {"ok", "create_fail", "insert_fail"}

\* chat.py PDFProcessor.store_table(table_data, table_name) of a fresh
\* processor; nrows = len(table_data), probe_error: the first _table_exists
\* reflection raises SQLAlchemyError and is answered False
store_table(file_hash, index, nrows, probe_error, outcome) ==
    /\ Begin("store_table")
    /\ LET base == <<"pdf", file_hash, index, 0>>
           table_name == IF probe_error THEN base ELSE UnusedName(base, 0)
           created == CreateAll(db, {table_name})
       IN  db' = IF nrows = 0 \/ outcome = "create_fail" THEN db
                 ELSE IF outcome = "insert_fail" THEN created
                 ELSE [created EXCEPT ![table_name] = @ \o Rows(OpTag, nrows - 1)]
    /\ UNCHANGED <<registry, backup, clr, uvars, qvars, cvars, xvars, evars>>

SaveTableOutcomes == {"ok", "drop_fail", "create_fail", "insert_fail", "meta_fail"}

\* persistence.save_table(df, schema_json): an existing table of that name is
\* dropped and created again, the rows are written, and the row of
\* extracted_table_meta for the name is replaced; no exception is caught
save_table(table_name, nrows, outcome) ==
    /\ Begin("save_table")
    /\ LET dropped == Without(db, {table_name})
           created == CreateAll(dropped, {table_name})
           written == [created EXCEPT ![table_name] = Rows(OpTag, nrows)]
           with_meta == CreateAll(written, {MetaTable})
           IsOther(r) == r # table_name
       IN  db' = CASE outcome = "drop_fail" -> db
                   [] outcome = "create_fail" -> dropped
                   [] outcome = "insert_fail" -> created
                   [] outcome = "meta_fail" -> written
                   [] OTHER -> [with_meta EXCEPT ![MetaTable] =
                                    Append(SelectSeq(@, IsOther), table_name)]
    /\ UNCHANGED <<registry, backup, clr, uvars, qvars, cvars, xvars, evars>>

\* SchemaManager().cleanup_schemas(file_hashes_to_keep): without a keep list
\* the entries created more than 30 days ago (`expired`) are removed; with one,
\* the entries whose file_hash is not listed - entries written by
\* extract_and_store_content carry no file_hash, so '' is looked up
cleanup_schemas(keep_given, keeps_blank, expired) ==
    /\ Begin("cleanup_schemas")
    /\ LET to_remove == IF keep_given
                        THEN IF keeps_blank THEN {} ELSE DOMAIN registry
                        ELSE expired
       IN  registry' = Without(registry, to_remove)
    /\ UNCHANGED <<db, backup, clr, uvars, qvars, cvars, xvars, evars>>

\* SchemaManager().backup_schemas()
backup_schemas ==
    /\ Begin("backup_schemas")
    /\ backup' = [written |-> TRUE, schemas |-> registry]
    /\ UNCHANGED <<registry, db, clr, uvars, qvars, cvars, xvars, evars>>

\* SchemaManager().restore_schemas(backup_file): False when the file cannot
\* be read
restore_schemas ==
    /\ Begin("restore_schemas")
    /\ registry' = IF backup.written THEN backup.schemas ELSE registry
    /\ UNCHANGED <<db, backup, clr, uvars, qvars, cvars, xvars, evars>>

PineconeOutcomes == {"no_key", "no_index", "deleted", "partial", "raise"}

\* _clear_pinecone_data, first operation of clear_all_data
_clear_pinecone_data(outcome, remaining) ==
    /\ Begin("clear_all_data")
    /\ outcome = "partial" => remaining # {}
    /\ outcome # "partial" => remaining = {}
    /\ LET success == outcome = "no_index" \/ outcome = "deleted"
                      \/ (outcome = "partial" /\ pinecone = {})
       IN  /\ clr' = [pc |-> "mysql", attempted |-> <<"pinecone">>,
                      operations |-> [ClearIdle.operations EXCEPT !.pinecone = success],
                      result |-> NoClearResult]
           /\ pinecone' = IF outcome = "deleted" THEN {}
                          ELSE IF outcome = "partial" /\ pinecone # {} THEN remaining
                          ELSE pinecone
    /\ UNCHANGED <<registry, db, backup, proc, qvars, cvars, xvars, evars>>

MysqlOutcomes == {"bad_config", "raise", "run"}

\* _clear_mysql_data: every table is dropped except those whose DROP fails
_clear_mysql_data(outcome, failed_tables) ==
    /\ clr.pc = "mysql"
    /\ outcome # "run" => failed_tables = {}
    /\ clr' = [clr EXCEPT !.pc = "table_schema",
                          !.attempted = Append(@, "mysql"),
                          !.operations.mysql = (outcome = "run" /\ failed_tables = {})]
    /\ db' = IF outcome = "run" THEN Without(db, DOMAIN db \ failed_tables) ELSE db
    /\ UNCHANGED <<registry, backup, ops, uvars, qvars, cvars, xvars, evars>>

\* variant: the registry file is left out of the summary
failed_ops_without_schema(operations) ==
    (IF operations.pinecone THEN <<>> ELSE <<"Pinecone">>) \o
    (IF operations.mysql THEN <<>> ELSE <<"MySQL">>)

\* the operations that failed, in the order of the summary
failed_ops(operations) ==
    failed_ops_without_schema(operations) \o
    (IF operations.table_schema THEN <<>> ELSE <<"Table Schema">>)

overall_success(operations) ==
    operations.pinecone /\ operations.mysql /\ operations.table_schema

\* _clear_table_schema (an empty object is written to the registry file),
\* then the overall success and the summary of clear_all_data
_clear_table_schema(ok) ==
    /\ clr.pc = "table_schema"
    /\ LET operations == [clr.operations EXCEPT !.table_schema = ok]
       IN  clr' = [pc |-> "idle",
                   attempted |-> Append(clr.attempted, "table_schema"),
                   operations |-> operations,
                   result |-> [returned |-> TRUE,
                               success |-> overall_success(operations),
                               summary |-> IF overall_success(operations)
                                           THEN <<"All data successfully cleared">>
                                           ELSE failed_ops(operations)]]
    /\ registry' = IF ok THEN Empty ELSE registry
    /\ UNCHANGED <<db, backup, ops, uvars, qvars, cvars, xvars, evars>>

\* uploads and maintenance operations, one request at a time
Serving == clr.pc = "idle"
FewFragments == FragmentsRead(MaxUploads) < DataFragments

-----------------------------------------------------------------------------
(* TableAgent.process_query called on its own (agents/table_agent.py)       *)

MaxCalls == 2        \* calls of one agent method in one run

\* the table the hard-coded fallback queries read
PatientData == <<"pdf_9aec543c_patient_data", 0, 0, 0>>

\* contents of table_schema.json when the server starts
SchemaFiles ==
    {[n \in names |-> [status |-> "complete", pdf_uuid |-> 0, rows_stored |-> 1]] :
        names \in {{}, LLMNames, {PatientData}, LLMNames \cup {PatientData}}}

NewTableAgent ==
    [pc |-> "new", schema |-> {}, query |-> <<>>, sql |-> "none",
     conn |-> "none", cursor |-> "none", path |-> "none", result |-> "none",
     calls |-> 0, open |-> 0, llm_calls |-> 0, generated |-> "none",
     executed |-> "none"]

TAIdle == ta = NewTableAgent

\* TableAgent.__init__: _load_schema reads the schema file once; a missing
\* or unreadable file gives the empty schema
TableAgentInit(schemaLoaded) ==
    /\ ta.pc = "new"
    /\ ta' = [ta EXCEPT !.pc = "idle",
                        !.schema = IF schemaLoaded THEN DOMAIN registry ELSE {}]
    /\ UNCHANGED <<bot, flask, qvars, cvars, dvars, uvars, mvars, evars>>

\* the phrases _generate_sql_query answers with hard-coded SQL
FallbackPhrases ==
    {"names, appointment dates, and medications",
     "names, ages, and appointment statuses",
     "total number of completed appointments and prescriptions",
     "prescriptions are there for each patient who has an appointment in orthopedics"}

TableQueries == {<<"q">>} \cup {<<"list", ph>> : ph \in FallbackPhrases}

\* process_query up to _generate_sql_query
TAProcessQuery(q) ==
    /\ ta.pc = "idle" /\ ta.calls < MaxCalls
    /\ ta' = [ta EXCEPT !.calls = @ + 1, !.query = q, !.sql = "none",
                        !.conn = "none", !.cursor = "none", !.path = "none",
                        !.llm_calls = 0, !.generated = "none", !.executed = "none",
                        !.result = IF ta.schema # {} THEN "none"
                                   ELSE "Error: Could not load schema",
                        !.pc = IF ta.schema # {} THEN "generate" ELSE "idle"]
    /\ UNCHANGED <<bot, flask, qvars, cvars, dvars, uvars, mvars, evars>>

\* `phrase in query.lower()` for one of the fallback phrases, with the
\* patient table in the loaded schema
UsesFallback(q, schema) ==
    /\ \E i \in 1..Len(q) : Lower(q[i]) \in FallbackPhrases
    /\ PatientData \in schema

\* variant: the braces of the example schema in the prompt are escaped
SystemPromptFields_escaped == {"schema", "query"}

\* the replacement fields str.format finds in system_prompt: the example
\* schema of the prompt is written with single braces, so its first brace
\* opens a field named '\n  "tables"'
SystemPromptFields == {"\n  \"tables\"", "schema", "query"}

\* system_prompt.format(schema=..., query=...) raises KeyError when a field
\* of the template is not among the keyword arguments
FormatRaisesKeyError == SystemPromptFields \ {"schema", "query"} # {}

\* what the LLM gives for the SQL: a SELECT, a SELECT inside ```sql fences,
\* another statement, the text 'Cannot generate SQL', or a failed call
SqlReplies == {"select", "fenced_select", "other_sql", "cannot", "raise"}

CannotGenerate == "Cannot generate SQL for this query"
PromptError == "Cannot generate SQL for this query: Prompt formatting error"

\* the text _generate_sql_query returns
GeneratedSql(q, schema, reply) ==
    CASE UsesFallback(q, schema) -> "fallback_select"
      [] ~UsesFallback(q, schema) /\ FormatRaisesKeyError -> PromptError
      [] OTHER -> CASE reply = "fenced_select" -> "select"
                    [] reply \in {"cannot", "raise"} -> CannotGenerate
                    [] OTHER -> reply

\* `"Cannot generate SQL" in sql_query`
ContainsCannot(sql) == sql \in {CannotGenerate, PromptError}

\* _generate_sql_query and the test of process_query on its result
TAGenerate(reply) ==
    /\ ta.pc = "generate"
    /\ LET sql == GeneratedSql(ta.query, ta.schema, reply)
           asked == ~UsesFallback(ta.query, ta.schema) /\ ~FormatRaisesKeyError
       IN ta' = IF ContainsCannot(sql)
                THEN [ta EXCEPT !.pc = "idle", !.generated = sql,
                                !.llm_calls = IF asked THEN 1 ELSE 0,
                                !.result = "Unable to process data query"]
                ELSE [ta EXCEPT !.pc = "connect", !.generated = sql, !.sql = sql,
                                !.llm_calls = IF asked THEN 1 ELSE 0]
    /\ UNCHANGED <<bot, flask, qvars, cvars, dvars, uvars, mvars, evars>>

CallOutcomes == {"ok", "mysql_error", "error"}

\* _execute_sql_query: mysql.connector.connect
TAConnect(outcome) ==
    /\ ta.pc = "connect"
    /\ ta' = IF outcome = "ok"
             THEN [ta EXCEPT !.pc = "cursor", !.conn = "open", !.open = @ + 1]
             ELSE [ta EXCEPT !.pc = "finally", !.path = outcome]
    /\ UNCHANGED <<bot, flask, qvars, cvars, dvars, uvars, mvars, evars>>

\* _execute_sql_query: conn.cursor(dictionary=True)
TACursor(outcome) ==
    /\ ta.pc = "cursor"
    /\ ta' = IF outcome = "ok"
             THEN [ta EXCEPT !.pc = "execute", !.cursor = "open"]
             ELSE [ta EXCEPT !.pc = "finally", !.path = outcome]
    /\ UNCHANGED <<bot, flask, qvars, cvars, dvars, uvars, mvars, evars>>

ExecuteOutcomes == {"rows", "empty", "mysql_error", "error"}

\* _execute_sql_query: cursor.execute(sql_query), fetchall and
\* _format_results; the statement is executed whatever its kind
TAExecute(outcome) ==
    /\ ta.pc = "execute"
    /\ ta' = [ta EXCEPT !.pc = "finally", !.executed = ta.sql,
                        !.path = CASE outcome = "rows" -> "result"
                                   [] outcome = "empty" -> "no_results"
                                   [] OTHER -> outcome]
    /\ UNCHANGED <<bot, flask, qvars, cvars, dvars, uvars, mvars, evars>>

\* variant: cursor and connection are closed at the end of the try body only
Finally_after_success(t) ==
    IF t.path \in {"result", "no_results"}
    THEN [t EXCEPT !.cursor = "closed", !.conn = "closed", !.open = @ - 1]
    ELSE t

\* the finally block: cursor.close() if a cursor was created, conn.close()
\* if a connection was created
Finally(t) ==
    [t EXCEPT !.cursor = IF t.cursor = "open" THEN "closed" ELSE @,
              !.conn = IF t.conn = "open" THEN "closed" ELSE @,
              !.open = IF t.conn = "open" THEN @ - 1 ELSE @]

ExecuteResult(path) ==
    CASE path = "result" -> "Results for query"
      [] path = "no_results" -> "No results found for query"
      [] path = "mysql_error" -> "Database error while processing query"
      [] OTHER -> "Error executing query"

\* _execute_sql_query returns through its finally block
TAFinally ==
    /\ ta.pc = "finally"
    /\ ta' = [Finally(ta) EXCEPT !.pc = "idle", !.result = ExecuteResult(ta.path)]
    /\ UNCHANGED <<bot, flask, qvars, cvars, dvars, uvars, mvars, evars>>

NextTable ==
    \/ \E b \in BOOLEAN : TableAgentInit(b)
    \/ \E q \in TableQueries : TAProcessQuery(q)
    \/ \E r \in SqlReplies : TAGenerate(r)
    \/ \E o \in CallOutcomes : TAConnect(o)
    \/ \E o \in CallOutcomes : TACursor(o)
    \/ \E o \in ExecuteOutcomes : TAExecute(o)
    \/ TAFinally

-----------------------------------------------------------------------------
(* ChatbotAgent.answer_question and upload_data (agents/rag_agent.py)       *)

MaxSources == 2      \* documents a similarity search returns
MaxDocs == 1         \* pages PyPDFLoader returns
MaxChunks == 2       \* chunks the splitter returns

Apology == "I'm sorry, I encountered an error while processing your question. Please try again."

NoAnswer ==
    [answer |-> "none", context_found |-> FALSE, num_sources |-> 0,
     success |-> FALSE, error |-> None]

NewBot ==
    [pc |-> "idle", op |-> "none", calls |-> 0, raised |-> FALSE,
     results |-> 0, exc |-> None, llm_calls |-> 0, ret |-> NoAnswer,
     text |-> FALSE, loaded |-> "none", docs |-> 0, split |-> "none",
     chunks |-> 0, add_calls |-> 0, add_chunks |-> 0, add_ok |-> FALSE,
     uploaded |-> FALSE, stored |-> 0]

BotIdle == bot = NewBot

\* variant: context_found tells whether a context text was built
AnswerSuccess_context_text(n) ==
    [answer |-> "generated", context_found |-> TRUE, num_sources |-> n,
     success |-> TRUE, error |-> None]

\* the dict returned at the end of the try body
AnswerSuccess(n) ==
    [answer |-> "generated", context_found |-> n > 0, num_sources |-> n,
     success |-> TRUE, error |-> None]

\* the dict returned by the except branch; e is str(e)
AnswerFailure(e) ==
    [answer |-> Apology, context_found |-> FALSE, num_sources |-> 0,
     success |-> FALSE, error |-> Some(e)]

\* answer_question is entered
BotAnswer ==
    /\ bot.pc = "idle" /\ bot.calls < MaxCalls
    /\ bot' = [NewBot EXCEPT !.pc = "search", !.op = "answer", !.calls = bot.calls + 1,
                             !.stored = bot.stored]
    /\ UNCHANGED <<ta, flask, qvars, cvars, dvars, uvars, mvars, evars>>

SearchOutcomes == {<<"ok", n>> : n \in 0..MaxSources} \cup {<<"raise", 0>>}

\* vectorstore.similarity_search_with_score and the choice of context text
BotSearch(outcome) ==
    /\ bot.pc = "search"
    /\ bot' = IF outcome[1] = "raise"
              THEN [bot EXCEPT !.pc = "idle", !.exc = Some("search failed"),
                               !.ret = AnswerFailure("search failed")]
              ELSE [bot EXCEPT !.pc = "llm", !.results = outcome[2]]
    /\ UNCHANGED <<ta, flask, qvars, cvars, dvars, uvars, mvars, evars>>

GenerateOutcomes == {"text", "raise"}

\* llm.generate_content, response.text and the return
BotGenerate(outcome) ==
    /\ bot.pc = "llm"
    /\ bot' = IF outcome = "raise"
              THEN [bot EXCEPT !.pc = "idle", !.llm_calls = @ + 1,
                               !.exc = Some("generation failed"),
                               !.ret = AnswerFailure("generation failed")]
              ELSE [bot EXCEPT !.pc = "idle", !.llm_calls = @ + 1,
                               !.ret = AnswerSuccess(bot.results)]
    /\ UNCHANGED <<ta, flask, qvars, cvars, dvars, uvars, mvars, evars>>

\* upload_data is entered; text_content is given or left empty
BotUpload(text_content) ==
    /\ bot.pc = "idle" /\ bot.calls < MaxCalls
    /\ bot' = [NewBot EXCEPT !.pc = "load", !.op = "upload", !.calls = bot.calls + 1,
                             !.text = text_content, !.stored = bot.stored]
    /\ UNCHANGED <<ta, flask, qvars, cvars, dvars, uvars, mvars, evars>>

\* `if not documents and not text_content`
NoContent(documents, text_content) == documents = 0 /\ ~text_content

LoadOutcomes == {<<"ok", n>> : n \in 0..MaxDocs} \cup {<<"raise", 0>>}

\* PyPDFLoader(file_path).load(), the content test and the text document
BotLoad(outcome) ==
    /\ bot.pc = "load"
    /\ bot' = CASE outcome[1] = "raise" ->
                     [bot EXCEPT !.pc = "idle", !.loaded = "raise"]
                [] outcome[1] # "raise" /\ NoContent(outcome[2], bot.text) ->
                     [bot EXCEPT !.pc = "idle", !.loaded = "empty"]
                [] OTHER ->
                     [bot EXCEPT !.pc = "split", !.loaded = "documents",
                                 !.docs = outcome[2] + (IF bot.text THEN 1 ELSE 0)]
    /\ UNCHANGED <<ta, flask, qvars, cvars, dvars, uvars, mvars, evars>>

\* variant: the test for an empty chunk list is left out
NoChunks_unchecked(chunks) == FALSE

\* `if not chunks`
NoChunks(chunks) == chunks = 0

SplitOutcomes == {<<"ok", n>> : n \in 0..MaxChunks} \cup {<<"raise", 0>>}

\* text_splitter.split_documents and the chunk test
BotSplit(outcome) ==
    /\ bot.pc = "split"
    /\ bot' = CASE outcome[1] = "raise" ->
                     [bot EXCEPT !.pc = "idle", !.split = "raise"]
                [] outcome[1] # "raise" /\ NoChunks(outcome[2]) ->
                     [bot EXCEPT !.pc = "idle", !.split = "empty"]
                [] OTHER ->
                     [bot EXCEPT !.pc = "add", !.split = "chunks", !.chunks = outcome[2]]
    /\ UNCHANGED <<ta, flask, qvars, cvars, dvars, uvars, mvars, evars>>

AddOutcomes == {"ok", "raise"}

\* vectorstore.add_documents(chunks) and the return
BotAdd(outcome) ==
    /\ bot.pc = "add"
    /\ bot' = [bot EXCEPT !.pc = "idle", !.add_calls = @ + 1,
                          !.add_chunks = bot.chunks,
                          !.add_ok = (outcome = "ok"),
                          !.uploaded = (outcome = "ok"),
                          !.stored = IF outcome = "ok" THEN @ + bot.chunks ELSE @]
    /\ UNCHANGED <<ta, flask, qvars, cvars, dvars, uvars, mvars, evars>>

NextBot ==
    \/ BotAnswer
    \/ \E o \in SearchOutcomes : BotSearch(o)
    \/ \E o \in GenerateOutcomes : BotGenerate(o)
    \/ \E t \in BOOLEAN : BotUpload(t)
    \/ \E o \in LoadOutcomes : BotLoad(o)
    \/ \E o \in SplitOutcomes : BotSplit(o)
    \/ \E o \in AddOutcomes : BotAdd(o)

-----------------------------------------------------------------------------
(* The Flask application (app.py): /health, /answer, /uploadpdf             *)

MAX_FILE_SIZE == 52428800      \* 50 * 1024 * 1024
ALLOWED_EXTENSIONS == {"pdf"}

\* the components EventBot.health_check tests
Components ==
    {"gemini_api", "pinecone_connection", "embeddings", "vector_store",
     "web_search", "query_rewriter"}

NoHealth == [c \in Components |-> FALSE]

NoResp ==
    [status |-> 0, state |-> "none", healthy |-> FALSE, success |-> FALSE,
     text |-> "none"]

\* a request body: plain text sent without a JSON content type, malformed
\* text sent as application/json, the JSON values null and {}, or a JSON
\* object whose 'query' key is missing (None) or holds a string
NoBody == [kind |-> "none", query |-> None]
Bodies ==
    {[kind |-> k, query |-> None] : k \in {"text", "malformed", "null", "empty_object"}}
    \cup {[kind |-> "object", query |-> q] : q \in {None} \cup {Some(t) : t \in BodyQueries}}

\* an upload: the declared Content-Length (0 when the header is absent),
\* whether a 'file' part is present, and its filename as tokens
Dot == "."
NoUpload == [length |-> 0, has_file |-> FALSE, filename |-> <<>>]
Filenames ==
    {<<>>, <<"doc">>, <<"doc", Dot, "pdf">>, <<"doc", Dot, "PDF">>,
     <<"doc", Dot, "txt">>, <<"doc", Dot, "pdf", Dot, "txt">>}
Uploads ==
    [length : {0, MAX_FILE_SIZE, MAX_FILE_SIZE + 1}, has_file : {TRUE},
     filename : Filenames]
    \cup [length : {0, MAX_FILE_SIZE + 1}, has_file : {FALSE}, filename : {<<>>}]

NewFlask ==
    [pc |-> "new", event_bot |-> FALSE, served |-> 0, route |-> "none",
     health |-> NoHealth, body |-> NoBody, upload |-> NoUpload,
     outcome |-> "none", resp |-> NoResp, agent_calls |-> 0,
     agent_query |-> <<>>]

FlaskIdle == flask = NewFlask

\* module level: event_bot = EventBot(), or None when the constructor raises
FlaskStart(initialized) ==
    /\ flask.pc = "new"
    /\ flask' = [flask EXCEPT !.pc = "serving", !.event_bot = initialized]
    /\ UNCHANGED <<ta, bot, qvars, cvars, dvars, uvars, mvars, evars>>

\* what one request leaves behind
Served(route, resp) ==
    [flask EXCEPT !.served = @ + 1, !.route = route, !.resp = resp,
                  !.health = NoHealth, !.body = NoBody, !.upload = NoUpload,
                  !.outcome = "none", !.agent_calls = 0, !.agent_query = <<>>]

\* variant: every tested component counts for the overall health
overall_health_all(h) == \A c \in Components : h[c]

\* EventBot.health_check: status["overall_health"]
overall_health(h) ==
    h["gemini_api"] /\ h["pinecone_connection"] /\ h["embeddings"] /\ h["vector_store"]

\* GET /health; h tells which component tests of EventBot.health_check pass
health_check(h) ==
    /\ flask.pc = "serving" /\ flask.served < MaxCalls
    /\ flask' =
          IF ~flask.event_bot
          THEN Served("health", [NoResp EXCEPT !.status = 500, !.state = "error",
                                               !.text = "EventBot not initialized"])
          ELSE [Served("health", [NoResp EXCEPT
                                     !.status = IF overall_health(h) THEN 200 ELSE 503,
                                     !.state = "success",
                                     !.healthy = overall_health(h)])
                  EXCEPT !.health = h, !.agent_calls = 1]
    /\ UNCHANGED <<ta, bot, qvars, cvars, dvars, uvars, mvars, evars>>

\* request.get_json(): the outcomes a build can produce for a body. A body
\* without a JSON content type gives None in older Flask and raises
\* UnsupportedMediaType from Flask 2.1 on; malformed JSON raises BadRequest
GetJson(body) ==
    CASE body.kind = "text" -> {"none", "raise"}
      [] body.kind = "malformed" -> {"raise"}
      [] body.kind = "null" -> {"none"}
      [] OTHER -> {"data"}

AnswerError ==
    "I apologize, but I encountered an error while processing your question. Please try again."

\* POST /answer; parsed is the outcome of get_json, outcome that of
\* EventBot.answer_question
answer_question(body, parsed, outcome) ==
    /\ flask.pc = "serving" /\ flask.served < MaxCalls
    /\ parsed \in GetJson(body)
    /\ LET query == IF body.query.some THEN Strip(body.query.v) ELSE <<>>
           error == [NoResp EXCEPT !.status = 500, !.text = AnswerError]
       IN flask' =
            CASE ~flask.event_bot ->
                   Served("answer", [NoResp EXCEPT !.status = 500,
                          !.text = "Service temporarily unavailable. Please try again later."])
              [] flask.event_bot /\ parsed = "raise" ->
                   [Served("answer", error) EXCEPT !.body = body]
              [] flask.event_bot /\ parsed = "none" ->
                   [Served("answer", [NoResp EXCEPT !.status = 400,
                          !.text = "Invalid request format. Please provide a valid JSON request."])
                      EXCEPT !.body = body]
              [] flask.event_bot /\ parsed = "data" /\ body.kind = "empty_object" ->
                   [Served("answer", [NoResp EXCEPT !.status = 400,
                          !.text = "Invalid request format. Please provide a valid JSON request."])
                      EXCEPT !.body = body]
              [] flask.event_bot /\ parsed = "data" /\ body.kind = "object" /\ query = <<>> ->
                   [Served("answer", [NoResp EXCEPT !.status = 400,
                          !.text = "Please provide a valid question."])
                      EXCEPT !.body = body]
              [] OTHER ->
                   [Served("answer",
                           IF outcome = "raise" THEN error
                           ELSE [NoResp EXCEPT !.status = 200, !.text = "agent answer",
                                               !.success = (outcome = "ok")])
                      EXCEPT !.body = body, !.outcome = outcome,
                             !.agent_calls = 1, !.agent_query = query]
    /\ UNCHANGED <<ta, bot, qvars, cvars, dvars, uvars, mvars, evars>>

\* validate_request_size
validate_request_size(length) == ~(length # 0 /\ length > MAX_FILE_SIZE)

\* the part of a filename after its last dot
RECURSIVE Extension(_)
Extension(f) ==
    IF f = <<>> \/ f[Len(f)] = Dot THEN <<>>
    ELSE Extension(SubSeq(f, 1, Len(f) - 1)) \o <<f[Len(f)]>>

\* variant: the extension is compared as written
allowed_file_case_sensitive(f) ==
    /\ \E i \in 1..Len(f) : f[i] = Dot
    /\ Len(Extension(f)) = 1 /\ Extension(f)[1] \in ALLOWED_EXTENSIONS

\* allowed_file
allowed_file(f) ==
    /\ \E i \in 1..Len(f) : f[i] = Dot
    /\ Len(Extension(f)) = 1 /\ Lower(Extension(f)[1]) \in ALLOWED_EXTENSIONS

UploadOutcomes == {"true", "false", "raise"}

\* POST /uploadpdf; outcome is that of EventBot.upload_pdf on the saved file
upload_pdf(u, outcome) ==
    /\ flask.pc = "serving" /\ flask.served < MaxCalls
    /\ LET reject(code, msg) ==
               [Served("uploadpdf", [NoResp EXCEPT !.status = code, !.text = msg])
                  EXCEPT !.upload = u]
       IN flask' =
            CASE ~flask.event_bot ->
                   Served("uploadpdf", [NoResp EXCEPT !.status = 500,
                                               !.text = "Service temporarily unavailable"])
              [] flask.event_bot /\ ~validate_request_size(u.length) ->
                   reject(413, "File too large")
              [] flask.event_bot /\ validate_request_size(u.length) /\ ~u.has_file ->
                   reject(400, "No file provided")
              [] flask.event_bot /\ validate_request_size(u.length) /\ u.has_file
                   /\ u.filename = <<>> ->
                   reject(400, "No file selected")
              [] flask.event_bot /\ validate_request_size(u.length) /\ u.has_file
                   /\ u.filename # <<>> /\ ~allowed_file(u.filename) ->
                   reject(400, "Only PDF files are allowed")
              [] OTHER ->
                   [Served("uploadpdf",
                           CASE outcome = "true" ->
                                  [NoResp EXCEPT !.status = 200, !.success = TRUE,
                                                 !.text = "uploaded and processed successfully"]
                             [] outcome = "false" ->
                                  [NoResp EXCEPT !.status = 500,
                                                 !.text = "Failed to process the PDF file"]
                             [] OTHER ->
                                  [NoResp EXCEPT !.status = 500,
                                       !.text = "An error occurred while processing your upload"])
                      EXCEPT !.upload = u, !.outcome = outcome, !.agent_calls = 1]
    /\ UNCHANGED <<ta, bot, qvars, cvars, dvars, uvars, mvars, evars>>

NextFlask ==
    \/ \E b \in BOOLEAN : FlaskStart(b)
    \/ \E h \in [Components -> BOOLEAN] : health_check(h)
    \/ \E b \in Bodies, p \in {"none", "raise", "data"}, o \in AgentOutcomes :
          answer_question(b, p, o)
    \/ \E u \in Uploads, o \in UploadOutcomes : upload_pdf(u, o)

-----------------------------------------------------------------------------
(* routes/chat.py: PDFProcessor.extract_content and the lookup of the       *)
(* upload handler                                                           *)

NewExtract ==
    [pc |-> "new", file_hash |-> 0, tables |-> <<>>, table_names |-> <<>>,
     current |-> NoFragment, has_current |-> FALSE, previous_row_count |-> 0,
     assigned |-> <<>>, nfrag |-> 0, returned |-> FALSE, lookups |-> <<>>]

EIdle == ext = NewExtract

\* extract_content starts: the table prefix is taken from the file hash
ExtractBegin(h) ==
    /\ ext.pc = "new"
    /\ ext' = [ext EXCEPT !.pc = "loop", !.file_hash = h]
    /\ UNCHANGED <<qvars, cvars, dvars, uvars, mvars, xvars>>

\* table_name = f"{table_prefix}_table_{len(tables) + 1}"
TableName(e) == <<"pdf", e.file_hash, Len(e.tables) + 1, 0>>

\* table_names.append(table_names[-1]) when the current table is finalized
FinalizeNames(names) == Append(names, names[Len(names)])

\* one table of a page: appended to the current table when it has as many
\* columns as the current table started with (its first row dropped when it
\* looks like a header), else the current table is finalized and a new
\* table is started
ExtractFragment(r, c, is_header) ==
    /\ ext.pc = "loop" /\ ext.nfrag < MaxFragments
    /\ LET frag == Cleaned(r, c)
           table_name == TableName(ext)
           continues == ext.has_current /\ frag.cols = ext.previous_row_count
       IN ext' =
            IF continues
            THEN [ext EXCEPT !.nfrag = @ + 1,
                             !.current.rows = @ + frag.rows - (IF is_header THEN 1 ELSE 0)]
            ELSE [ext EXCEPT
                    !.nfrag = @ + 1,
                    !.tables = IF ext.has_current THEN Append(@, ext.current) ELSE @,
                    !.table_names =
                        Append(IF ext.has_current THEN FinalizeNames(@) ELSE @, table_name),
                    !.assigned = Append(@, table_name),
                    !.current = frag, !.has_current = TRUE,
                    !.previous_row_count = frag.cols]
    /\ UNCHANGED <<qvars, cvars, dvars, uvars, mvars, xvars>>

\* a table that is empty after cleaning is skipped
ExtractSkip ==
    /\ ext.pc = "loop" /\ ext.nfrag < MaxFragments
    /\ ext' = [ext EXCEPT !.nfrag = @ + 1]
    /\ UNCHANGED <<qvars, cvars, dvars, uvars, mvars, xvars>>

\* the end of the document: the last table is appended and the lists are
\* returned; the upload handler then stores tables[i-1] under
\* table_names[i-1] for i = 1..len(tables)
ExtractReturn ==
    /\ ext.pc = "loop"
    /\ LET tables == IF ext.has_current THEN Append(ext.tables, ext.current)
                     ELSE ext.tables
       IN ext' = [ext EXCEPT !.pc = "done", !.returned = TRUE, !.tables = tables,
                             !.lookups = [i \in 1..Len(tables) |-> ext.table_names[i]]]
    /\ UNCHANGED <<qvars, cvars, dvars, uvars, mvars, xvars>>

\* pdfplumber raises: extract_content raises ValueError
ExtractFails ==
    /\ ext.pc = "loop"
    /\ ext' = [ext EXCEPT !.pc = "done"]
    /\ UNCHANGED <<qvars, cvars, dvars, uvars, mvars, xvars>>

NextExtract ==
    \/ \E h \in FileHashes : ExtractBegin(h)
    \/ \E r \in 1..MaxDim, c \in 1..MaxDim, hdr \in BOOLEAN : ExtractFragment(r, c, hdr)
    \/ ExtractSkip
    \/ ExtractReturn
    \/ ExtractFails

XIdle == TAIdle /\ BotIdle /\ FlaskIdle /\ EIdle

vars == <<qvars, cvars, dvars, uvars, mvars, xvars, evars>>

Init == QIdle /\ CIdle /\ DIdle /\ UIdle /\ MIdle /\ XIdle
Next == QNext
Spec == Init /\ [][Next]_vars

\* workflow.invoke runs the nodes of the compiled graph to END without
\* yielding, so a node that can run does run
WorkflowStep ==
    \/ \E r \in RouterReplies : _manager_node(r)
    \/ _table_node
    \/ _rag_node
    \/ \E llm \in {LLMRaise} \cup {LLMContent(t) : t \in MergeContents} : _combiner_node(llm)
SpecLive == Init /\ [][Next]_vars /\ WF_vars(WorkflowStep)

InitCombine == QIdle /\ CInit /\ DIdle /\ UIdle /\ MIdle /\ XIdle
NextCombine == CombineCall
SpecCombine == InitCombine /\ [][NextCombine]_vars

InitData == QIdle /\ CIdle /\ DIdle /\ UIdle /\ MIdle /\ XIdle
NextData ==
    \/ Serving /\ UInit
    \/ Serving /\ FewFragments /\ USkip
    \/ Serving /\ FewFragments /\ UFragment
    \/ Serving /\ UStore
    \/ Serving /\ UStart
    \/ Serving /\ UEnd
    \/ Serving /\ UFail
    \/ Serving /\ UReturn
    \/ \E h \in FileHashes, i \in {1}, k \in 0..MaxRows, e \in BOOLEAN,
          o \in StoreTableOutcomes : store_table(h, i, k, e, o)
    \/ \E n \in LLMNames, k \in 0..MaxRows, o \in SaveTableOutcomes : save_table(n, k, o)
    \/ \E g, b \in BOOLEAN, x \in SUBSET DOMAIN registry : cleanup_schemas(g, b, x)
    \/ backup_schemas
    \/ restore_schemas
    \/ \E o \in PineconeOutcomes, r \in SUBSET pinecone : _clear_pinecone_data(o, r)
    \/ \E o \in MysqlOutcomes, f \in SUBSET DOMAIN db : _clear_mysql_data(o, f)
    \/ \E ok \in BOOLEAN : _clear_table_schema(ok)
SpecData == InitData /\ [][NextData]_vars

InitTable ==
    /\ QIdle /\ CIdle /\ UIdle /\ MIdle /\ XIdle
    /\ registry \in SchemaFiles /\ db = Empty
SpecTable == InitTable /\ [][NextTable]_vars

InitBot == QIdle /\ CIdle /\ DIdle /\ UIdle /\ MIdle /\ XIdle
SpecBot == InitBot /\ [][NextBot]_vars

InitFlask == QIdle /\ CIdle /\ DIdle /\ UIdle /\ MIdle /\ XIdle
SpecFlask == InitFlask /\ [][NextFlask]_vars

\* two uploads served by two workers: each request has its own PDFProcessor,
\* their steps interleave freely
InitConcurrent == QIdle /\ CIdle /\ DIdle /\ UIdle /\ MIdle /\ XIdle
NextConcurrent ==
    \/ \E p \in Procs : PDFProcessorInit(p)
    \/ \E p \in Procs : OneMore(p) /\ SkipFragment(p)
    \/ \E p \in Procs, r \in 1..MaxDim, c \in 1..MaxDim, reply \in ContinuationReplies :
          OneMore(p) /\ Fragment(p, r, c, reply)
    \/ \E p \in Procs, o \in StoreOutcomes, v \in 0..(MaxFragments * MaxDim) :
          StoreTable(p, o, v)
    \/ \E p \in Procs, reply \in SchemaReplies : StartTable(p, reply)
    \/ \E p \in Procs : EndOfDocument(p)
    \/ \E p \in Procs : ExtractionFails(p)
    \/ \E p \in Procs, e \in BOOLEAN : ReturnUpload(p, e)
SpecConcurrent == InitConcurrent /\ [][NextConcurrent]_vars

InitExtract == QIdle /\ CIdle /\ DIdle /\ UIdle /\ MIdle /\ XIdle
SpecExtract == InitExtract /\ [][NextExtract]_vars

InitUpload == QIdle /\ CIdle /\ DIdle /\ UIdle /\ MIdle /\ XIdle
NextUpload ==
    \/ UInit
    \/ USkip
    \/ UFragment
    \/ UStore
    \/ UStart
    \/ UEnd
    \/ UFail
    \/ UReturn
SpecUpload == InitUpload /\ [][NextUpload]_vars

\* the running server: the ManagerAgent built its TableAgent once, requests
\* are served one at a time, the upload before the queries
UploadAtRest == \A p \in Procs : proc[p].pc \in {"new", "done"}
AgentAtRest == ta.pc \in {"new", "idle"} /\ ta.calls = 0

\* ManagerAgent._load_table_schema: the tables of table_schema.json as read
\* by the router for the query at hand
_load_table_schema == DOMAIN registry

InitServer ==
    /\ QIdle /\ CIdle /\ UIdle /\ MIdle /\ XIdle
    /\ registry \in {f \in SchemaFiles : DOMAIN f \subseteq {PatientData}}
    /\ db = Empty
ServeUpload == AgentAtRest /\ proc[MaxUploads].pc = "new"
NextServer ==
    \/ UploadAtRest /\ \E b \in BOOLEAN : TableAgentInit(b)
    \/ UploadAtRest /\ \E q \in TableQueries : TAProcessQuery(q)
    \/ UploadAtRest /\ \E r \in SqlReplies : TAGenerate(r)
    \/ UploadAtRest /\ \E o \in CallOutcomes : TAConnect(o)
    \/ UploadAtRest /\ \E o \in CallOutcomes : TACursor(o)
    \/ UploadAtRest /\ \E o \in ExecuteOutcomes : TAExecute(o)
    \/ UploadAtRest /\ TAFinally
    \/ ServeUpload /\ \E p \in Procs : Alone(p) /\ PDFProcessorInit(p)
    \/ ServeUpload /\ \E p \in Procs : Alone(p) /\ OneMore(p) /\ SkipFragment(p)
    \/ ServeUpload /\ \E p \in Procs, r \in 1..MaxDim, c \in 1..MaxDim,
                           reply \in ContinuationReplies :
                           Alone(p) /\ OneMore(p) /\ Fragment(p, r, c, reply)
    \/ ServeUpload /\ UStore
    \/ ServeUpload /\ UStart
    \/ ServeUpload /\ UEnd
    \/ ServeUpload /\ UFail
    \/ ServeUpload /\ UReturn
SpecServer == InitServer /\ [][NextServer]_vars

-----------------------------------------------------------------------------
(* Properties of the query workflow                                        *)

IsPrefix(a, b) == Len(a) <= Len(b) /\ SubSeq(b, 1, Len(a)) = a

ExpectedNodes(d) ==
    CASE d = "table" -> <<"manager", "table", "combiner">>
      [] d = "both"  -> <<"manager", "table", "rag", "combiner">>
      [] OTHER       -> <<"manager", "rag", "combiner">>

\* C1: a query processed by the manager workflow runs manager, table,
\* combiner for the decision 'table', manager, rag, combiner for 'rag' and
\* manager, table, rag, combiner for 'both'; at every moment the executed
\* nodes are a prefix of that sequence (so table never follows rag and the
\* combiner runs once, last), and at END the sequence is complete.
C1_NodeSequences ==
    /\ (pc \in {"table", "rag", "combiner", "end"} \/ (pc = "done" /\ called = <<"manager">>))
          => /\ nodes # <<>>
             /\ IsPrefix(nodes, ExpectedNodes(decision))
    /\ (pc = "end" \/ (pc = "done" /\ called = <<"manager">>))
          => nodes = ExpectedNodes(decision)
    /\ pc \in {"table", "rag", "combiner"}
          => ExpectedNodes(decision)[Len(nodes) + 1] = pc

C1_Witness ==
    /\ pc = "done" /\ decision = "both"
    /\ nodes = <<"manager", "table", "rag", "combiner">>

\* C2: whenever an exception was caught while a request was processed, the
\* response returned to the caller has success = false.
C2_CaughtMeansFailure ==
    (pc = "done" /\ caught # {}) => ~result.success

\* C3: Orchestrator.process_query delegates to exactly one agent, the
\* manager agent whenever one was supplied and otherwise the legacy agent;
\* with no agent it calls none and returns the fixed unavailable answer with
\* success = false; an exception of the agent becomes a success = false
\* response carrying the exception text.
C3_Delegation ==
    pc = "done" =>
        /\ called = IF orch.manager_agent THEN <<"manager">>
                    ELSE IF orch.chatbot_agent THEN <<"chatbot">>
                    ELSE <<>>
        /\ (~orch.manager_agent /\ ~orch.chatbot_agent)
              => /\ ~result.success
                 /\ result.answer = ServiceUnavailable
        /\ result.kind \in {"unavailable", "legacy", "manager", "orchestrator_except"}
        /\ result.kind = "orchestrator_except"
              => /\ ~result.success
                 /\ result.error = AgentExceptionText
        /\ (called = <<"chatbot">> /\ "orchestrator" \in caught)
              => result.kind = "orchestrator_except"

C3_Witness ==
    /\ pc = "done" /\ orch.manager_agent /\ orch.chatbot_agent
    /\ called = <<"manager">> /\ result.kind = "manager"

\* C9: in an application built by create_app with the Manager Agent
\* initialized, the rag_response of a query routed to 'rag' or 'both' comes
\* from the retrieval agent, not from a placeholder or an error string.
C9_RagFromRetrievalAgent ==
    (/\ builtBy = "create_app" /\ orch.manager_agent
     /\ pc \in {"combiner", "end", "done"}
     /\ decision \in {"rag", "both"})
        => ragSource = "agent"

-----------------------------------------------------------------------------
(* Properties of CombinerAgent.combine_responses                           *)

NonEmpty(o) == o.some /\ Len(o.v) > 0

\* the parts of C4 about the LLM call, a single response and no response
C4_Common ==
    /\ (cout.llm_calls = 1) <=> (NonEmpty(cin.table) /\ NonEmpty(cin.rag))
    /\ cout.llm_calls \in {0, 1}
    /\ (NonEmpty(cin.table) /\ ~NonEmpty(cin.rag))
          => cout.reply = IF Strip(cin.table.v) = <<>>
                          THEN NoInfoFrom("data analysis") ELSE cin.table.v
    /\ (NonEmpty(cin.rag) /\ ~NonEmpty(cin.table))
          => cout.reply = IF Strip(cin.rag.v) = <<>>
                          THEN NoInfoFrom("knowledge base") ELSE cin.rag.v
    /\ (~NonEmpty(cin.rag) /\ ~NonEmpty(cin.table))
          => cout.reply = NoResponseApology
    /\ (NonEmpty(cin.table) /\ NonEmpty(cin.rag) /\ ~cin.llm.raises)
          => cout.reply = Strip(cin.llm.content)
    /\ ~cout.raised

\* C4 as stated: when the LLM merge fails the reply is the RAG response
\* followed by the table response, separated by a blank line.
C4_MergeFailureConcatenates ==
    cout.ran =>
        /\ C4_Common
        /\ (NonEmpty(cin.table) /\ NonEmpty(cin.rag) /\ cin.llm.raises)
              => cout.reply = cin.rag.v \o <<Blank>> \o cin.table.v

\* C4 amended: when the LLM merge fails the reply joins the stripped RAG
\* response and the stripped table response with a blank line, leaving out a
\* response that is only whitespace; when both are only whitespace the reply
\* is the fixed 'No response could be generated' notice.
C4_MergeFailureJoinsStripped ==
    cout.ran =>
        /\ C4_Common
        /\ (NonEmpty(cin.table) /\ NonEmpty(cin.rag) /\ cin.llm.raises)
              => LET r == Strip(cin.rag.v)
                     t == Strip(cin.table.v)
                 IN  cout.reply =
                        IF r # <<>> /\ t # <<>> THEN r \o <<Blank>> \o t
                        ELSE IF r # <<>> THEN r
                        ELSE IF t # <<>> THEN t
                        ELSE NoResponseCould

C4_Witness ==
    /\ cout.ran /\ cin.llm.raises
    /\ NonEmpty(cin.table) /\ NonEmpty(cin.rag)
    /\ Strip(cin.rag.v) # cin.rag.v /\ Strip(cin.rag.v) # <<>>
    /\ cout.reply = Strip(cin.rag.v) \o <<Blank>> \o Strip(cin.table.v)

-----------------------------------------------------------------------------
(* Schema registry lifecycle and continuation handling                      *)

StatusOf(reg, n) == IF n \in DOMAIN reg THEN reg[n].status ELSE "absent"
RowsOf(database, n) == IF n \in DOMAIN database THEN database[n] ELSE <<>>

\* C5: in extract_and_store_content a registry entry is written with status
\* 'processing' when the first fragment of a table is met, before any row is
\* stored; it becomes 'complete' only in the step that has inserted and
\* committed the rows of the table; a 'complete' entry never returns to
\* 'processing'.
C5_EntryLifecycle ==
    [][\A n \in DOMAIN registry' :
          /\ StatusOf(registry, n) = "absent" =>
                registry'[n].status = "processing" /\ db' = db
          /\ (StatusOf(registry, n) # "complete" /\ registry'[n].status = "complete") =>
                \E p \in Procs :
                    db'[n] = RowsOf(db, n) \o Rows(p, registry'[n].rows_stored)
          /\ StatusOf(registry, n) = "complete" => registry'[n].status = "complete"]_vars

\* the continuation check returned a true value for the decision d
ReturnedTrue(d) == d.asked /\ d.reply \in {"true", "text"}

\* C8: a fragment is appended to the current table only if its column count
\* equals the table's column_count and the continuation check returned true;
\* in every other case it starts a new table, and every table started before
\* has been handed to _store_table_with_schema before the new one is started.
C8_ContinuationDecision ==
    \A p \in Procs :
        LET d == proc[p].last
            me == proc[p]
        IN  /\ d.kind = "append" =>
                  d.had_current /\ d.cols = d.column_count /\ ReturnedTrue(d)
            /\ d.kind = "new" => ~(d.had_current /\ d.cols = d.column_count /\ ReturnedTrue(d))
            /\ d.asked <=> (d.had_current /\ d.cols = d.column_count)
            /\ (d.kind = "new" /\ me.pc = "finalize") =>
                  d.had_current /\ Len(me.finalized) + 1 = Len(me.started)
            /\ me.pc = "start" =>
                  d.kind = "new" /\ Len(me.finalized) = Len(me.started)
            /\ (d.kind = "new" /\ me.pc = "loop") =>
                  Len(me.started) = Len(me.finalized) + 1 /\ me.current.fragments = 1

\* a table of two fragments was finalized because the third fragment was not
\* a continuation
C8_Witness ==
    \E p \in Procs :
        /\ proc[p].pc = "start"
        /\ proc[p].last.kind = "new" /\ proc[p].last.had_current
        /\ proc[p].current.fragments = 2
        /\ Len(proc[p].finalized) = 1

-----------------------------------------------------------------------------
(* Removal of stored data                                                   *)

EntryDeleted == \E n \in DOMAIN registry : n \notin DOMAIN registry'
TableDropped == \E n \in DOMAIN db : n \notin DOMAIN db' \/ ~IsPrefix(db[n], db'[n])
ClearStep == clr' # clr
MaintenanceStep(names) == ops' # ops /\ ops'.last \in names

C7_ExistingTablesUntouched ==
    [][(db' # db /\ ~ClearStep) =>
          /\ \A n \in DOMAIN db : n \in DOMAIN db' /\ db'[n] = db[n]
          /\ \A n \in DOMAIN db' \ DOMAIN db :
                \A j \in 0..(n[4] - 1) : [n EXCEPT ![4] = j] \in DOMAIN db]_vars

-----------------------------------------------------------------------------
(* clear_all_data                                                           *)

\* C10: clear_all_data attempts the three operations in the order Pinecone,
\* MySQL, schema registry whatever the earlier ones report; its success is
\* true iff all three succeeded, and otherwise the summary names exactly the
\* operations that failed.
C10_ClearAllData ==
    /\ IsPrefix(clr.attempted, <<"pinecone", "mysql", "table_schema">>)
    /\ clr.pc = "mysql" => clr.attempted = <<"pinecone">>
    /\ clr.pc = "table_schema" => clr.attempted = <<"pinecone", "mysql">>
    /\ clr.result.returned =>
          /\ clr.attempted = <<"pinecone", "mysql", "table_schema">>
          /\ clr.result.success <=>
                (clr.operations.pinecone /\ clr.operations.mysql
                 /\ clr.operations.table_schema)
          /\ ~clr.result.success =>
                /\ \A i \in 1..Len(clr.result.summary) :
                      clr.result.summary[i] \in {"Pinecone", "MySQL", "Table Schema"}
                /\ (\E i \in 1..Len(clr.result.summary) :
                       clr.result.summary[i] = "Pinecone") <=> ~clr.operations.pinecone
                /\ (\E i \in 1..Len(clr.result.summary) :
                       clr.result.summary[i] = "MySQL") <=> ~clr.operations.mysql
                /\ (\E i \in 1..Len(clr.result.summary) :
                       clr.result.summary[i] = "Table Schema")
                      <=> ~clr.operations.table_schema

\* Pinecone and the registry file failed, MySQL was still cleared of a stored
\* table, and the summary names the two failures
C10_Witness ==
    /\ clr.result.returned /\ ~clr.result.success
    /\ clr.result.summary = <<"Pinecone", "Table Schema">>
    /\ clr.operations.mysql
    /\ \E p \in Procs : proc[p].pc = "done" /\ Len(proc[p].response.tables_info) = 1
    /\ db = Empty /\ registry # Empty

-----------------------------------------------------------------------------
(* Routing workflow: termination, router fallback, table node, /answer     *)

NodeRan(n) == \E i \in 1..Len(nodes) : nodes[i] = n
NoNodeTwice == \A i, j \in 1..Len(nodes) : nodes[i] = nodes[j] => i = j

\* C17: every run of the routing workflow terminates: from the manager node
\* it reaches END after at most three further node executions, no node runs
\* twice, and END is never entered directly from the manager node.
C17_WorkflowTerminates ==
    /\ [](/\ Len(nodes) <= 4
          /\ NoNodeTwice
          /\ (nodes # <<>> => nodes[1] = "manager")
          /\ (pc = "end" => Len(nodes) >= 3 /\ nodes[Len(nodes)] = "combiner")
          /\ (NodeRan("manager") => st.needs_table \/ st.needs_rag))
    /\ ((pc = "manager") ~> (pc = "end"))

\* the longest run: manager, table, rag, combiner, END
C17_Witness == pc = "end" /\ Len(nodes) = 4

Recognised(reply) == reply.kind = "json" /\ Lower(reply.status) \in {"table", "rag", "both"}

\* C18: when the router call raises, its reply is not JSON or its status is
\* not table / rag / both, the manager node sets needs_table = false,
\* needs_rag = true and rag_sub_query = the query, and the rag route is
\* taken; for a recognised status every query handed to an agent is the
\* router's sub-query when non-empty and the original query otherwise, so no
\* agent receives an empty query for a non-empty original query.
C18_RouterFallback ==
    /\ (NodeRan("manager") /\ ~Recognised(routed.reply)) =>
          /\ ~st.needs_table /\ st.needs_rag /\ st.rag_sub_query = st.query
          /\ IsPrefix(nodes, <<"manager", "rag", "combiner">>)
          /\ routed.rag.some => routed.rag.v = st.query
    /\ (NodeRan("manager") /\ Recognised(routed.reply)) =>
          /\ routed.table.some =>
                routed.table.v = IF routed.reply.table # <<>>
                                 THEN routed.reply.table ELSE st.query
          /\ routed.rag.some =>
                routed.rag.v = IF routed.reply.rag # <<>>
                               THEN routed.reply.rag ELSE st.query
    /\ st.query # <<>> =>
          /\ routed.table.some => routed.table.v # <<>>
          /\ routed.rag.some => routed.rag.v # <<>>

\* the router named both agents without sub-queries: both agents were handed
\* the original query
C18_Witness ==
    /\ pc = "end" /\ st.query # <<>>
    /\ routed.reply.kind = "json" /\ Lower(routed.reply.status) = "both"
    /\ routed.reply.table = <<>> /\ routed.reply.rag = <<>>
    /\ routed.table = Some(st.query) /\ routed.rag = Some(st.query)

\* C19: with the table agent initialized, the table node sets table_response
\* to the string returned by TableAgent.process_query; the 'Error processing
\* data query' text is not produced.
C19_TableResponseFromAgent ==
    (NodeRan("table") /\ mgr.table_agent) => st.table_response = TableAnswer

\* C20: when the application was built with a functional orchestrator (in
\* particular with the Manager Agent initialized), POST /answer with a
\* non-empty query is dispatched to an agent and is not rejected with
\* 'ChatbotAgent not initialized'.
C20_AnswerServed ==
    (api.returned /\ Strip(api.query) # <<>> /\ builtBy = "create_app"
     /\ orch.is_functional) =>
        api.agent_calls = 1 /\ api.detail # "ChatbotAgent not initialized"

-----------------------------------------------------------------------------
(* TableAgent database connections                                          *)

\* C11: every call of _execute_sql_query that opened a connection has closed
\* it, and its cursor if one was created, when it returns - on the result,
\* no-results, MySQL-error and generic-error paths; no connection stays open
\* between calls.
C11_ConnectionsClosed ==
    /\ ta.open \in {0, 1}
    /\ ta.pc \in {"new", "idle", "generate", "connect"} =>
          ta.open = 0 /\ ta.conn # "open" /\ ta.cursor # "open"
    /\ (ta.pc = "idle" /\ ta.path # "none") =>
          /\ ta.conn \in {"none", "closed"} /\ ta.cursor \in {"none", "closed"}
          /\ ta.path \in {"result", "no_results"} =>
                ta.conn = "closed" /\ ta.cursor = "closed"

\* cursor.execute failed with a MySQL error in the second call; cursor and
\* connection were closed
C11_Witness ==
    /\ ta.pc = "idle" /\ ta.calls = 2 /\ ta.path = "mysql_error"
    /\ ta.conn = "closed" /\ ta.cursor = "closed" /\ ta.open = 0

-----------------------------------------------------------------------------
(* ChatbotAgent                                                             *)

Answered == bot.op = "answer" /\ bot.pc = "idle"

\* C13: answer_question never raises. On success the result has success
\* true, num_sources equal to the number of retrieved results and
\* context_found true exactly when that number is positive, the LLM having
\* been called once even when nothing was retrieved; when a step raises the
\* result has success false, error equal to the exception text,
\* context_found false, num_sources 0 and the fixed apology as answer.
C13_AnswerQuestion ==
    /\ ~bot.raised
    /\ (Answered /\ bot.exc = None) =>
          /\ bot.ret.success /\ bot.ret.error = None
          /\ bot.ret.answer = "generated"
          /\ bot.ret.num_sources = bot.results
          /\ bot.ret.context_found <=> bot.results > 0
          /\ bot.llm_calls = 1
    /\ (Answered /\ bot.exc # None) =>
          /\ ~bot.ret.success /\ bot.ret.error = bot.exc
          /\ ~bot.ret.context_found /\ bot.ret.num_sources = 0
          /\ bot.ret.answer = Apology
    /\ (Answered /\ bot.ret.success) => bot.exc = None

\* an answer produced from an empty retrieval
C13_Witness ==
    /\ Answered /\ bot.ret.success /\ bot.results = 0
    /\ bot.llm_calls = 1 /\ ~bot.ret.context_found

Uploaded == bot.op = "upload" /\ bot.pc = "idle"

\* C14: upload_data returns true only after vectorstore.add_documents was
\* called with a non-empty set of chunks and returned normally; when the
\* PDF yields no documents and no text_content was given, when splitting
\* yields no chunks, or when loading raises, add_documents is never called
\* and the result is false; the method never raises.
C14_UploadData ==
    /\ ~bot.raised
    /\ (Uploaded /\ bot.uploaded) =>
          bot.add_calls = 1 /\ bot.add_chunks > 0 /\ bot.add_ok
    /\ (Uploaded /\ (bot.loaded \in {"raise", "empty"} \/ bot.split = "empty")) =>
          bot.add_calls = 0 /\ ~bot.uploaded
    /\ bot.add_calls > 0 => bot.add_chunks > 0

\* the PDF has no pages, the given text_content alone is split and stored
C14_Witness ==
    /\ Uploaded /\ bot.uploaded /\ bot.text /\ bot.docs = 1
    /\ bot.add_calls = 1 /\ bot.add_chunks > 0

-----------------------------------------------------------------------------
(* The Flask routes                                                         *)

\* C12: GET /health responds 500 with status 'error' when the agent failed
\* to initialize; otherwise it responds with status 'success' and healthy
\* equal to the agent's overall_health, with HTTP 200 exactly when
\* overall_health is true and 503 otherwise.
C12_Health ==
    flask.route = "health" =>
       /\ ~flask.event_bot => flask.resp.status = 500 /\ flask.resp.state = "error"
       /\ flask.event_bot =>
             LET overall == /\ flask.health["gemini_api"]
                            /\ flask.health["pinecone_connection"]
                            /\ flask.health["embeddings"]
                            /\ flask.health["vector_store"]
             IN /\ flask.resp.state = "success"
                /\ flask.resp.healthy = overall
                /\ flask.resp.status = IF overall THEN 200 ELSE 503

\* the four core components pass while web search fails: healthy, 200
C12_Witness ==
    /\ flask.route = "health" /\ flask.event_bot
    /\ flask.health["gemini_api"] /\ flask.health["vector_store"]
    /\ ~flask.health["web_search"]
    /\ flask.resp.status = 200 /\ flask.resp.healthy

AnswerServed == flask.route = "answer" /\ flask.event_bot

NotJson(body) == body.kind \in {"text", "malformed"}

\* C15: with the agent initialized, POST /answer responds 400 without
\* calling the agent when the body is not JSON or when the query is empty
\* or only whitespace; with a non-empty query it calls the agent exactly
\* once with the stripped query and responds 200 with the agent's answer;
\* when the agent's answer_question raises it responds 500 with success
\* false and an answer containing 'encountered an error'.
C15_AnswerRoute ==
    AnswerServed =>
       /\ (NotJson(flask.body) \/
           (flask.body.kind = "object" /\ flask.body.query.some
              /\ Strip(flask.body.query.v) = <<>>)) =>
             flask.resp.status = 400 /\ flask.agent_calls = 0
       /\ (flask.body.kind = "object" /\ flask.body.query.some
              /\ Strip(flask.body.query.v) # <<>>) =>
             /\ flask.agent_calls = 1
             /\ flask.agent_query = Strip(flask.body.query.v)
             /\ flask.outcome # "raise" =>
                   flask.resp.status = 200 /\ flask.resp.text = "agent answer"
             /\ flask.outcome = "raise" =>
                   /\ flask.resp.status = 500 /\ ~flask.resp.success
                   /\ flask.resp.text = AnswerError

UploadServed == flask.route = "uploadpdf" /\ flask.event_bot

\* C16: with the agent initialized, POST /uploadpdf rejects an invalid
\* upload before the agent is invoked, checking in this order: declared
\* size above the maximum -> 413 'File too large'; no 'file' part -> 400
\* 'No file provided'; empty filename -> 400 'No file selected'; extension
\* other than pdf -> 400 'Only PDF files are allowed'. An accepted file
\* yields 200 with success true if the agent's upload returns true and 500
\* with success false if it returns false.
C16_UploadRoute ==
    UploadServed =>
       LET u == flask.upload
           large == u.length > MAX_FILE_SIZE
           pdf == /\ \E i \in 1..Len(u.filename) : u.filename[i] = Dot
                  /\ u.filename[Len(u.filename)] \in {"pdf", "PDF"}
           rejected(code, msg) ==
               flask.resp.status = code /\ flask.resp.text = msg
                  /\ ~flask.resp.success /\ flask.agent_calls = 0
       IN /\ large => rejected(413, "File too large")
          /\ (~large /\ ~u.has_file) => rejected(400, "No file provided")
          /\ (~large /\ u.has_file /\ u.filename = <<>>) =>
                rejected(400, "No file selected")
          /\ (~large /\ u.has_file /\ u.filename # <<>> /\ ~pdf) =>
                rejected(400, "Only PDF files are allowed")
          /\ (~large /\ u.has_file /\ u.filename # <<>> /\ pdf) =>
                /\ flask.agent_calls = 1
                /\ flask.outcome = "true" =>
                      flask.resp.status = 200 /\ flask.resp.success
                /\ flask.outcome = "false" =>
                      flask.resp.status = 500 /\ ~flask.resp.success

\* an upload named doc.PDF of exactly the maximum size is accepted and the
\* agent stores it
C16_Witness ==
    /\ UploadServed /\ flask.upload.length = MAX_FILE_SIZE
    /\ flask.upload.filename = <<"doc", Dot, "PDF">>
    /\ flask.outcome = "true" /\ flask.resp.status = 200 /\ flask.resp.success

-----------------------------------------------------------------------------
(* SQL generated and executed by the TableAgent                             *)

C22_GenerateThenExecute ==
    (ta.generated # "none" /\ ta.schema # {}
        /\ ~\E i \in 1..Len(ta.query) : Lower(ta.query[i]) \in FallbackPhrases) =>
       /\ ta.llm_calls = 1
       /\ ta.generated \in {"select", "other_sql", CannotGenerate}
       /\ ta.generated = CannotGenerate =>
             ta.executed = "none" /\ ta.result = "Unable to process data query"
       /\ (ta.generated # CannotGenerate /\ ta.executed # "none") =>
             ta.executed = ta.generated

-----------------------------------------------------------------------------
(* Table names and bookkeeping of one upload                                *)

IsFallbackName(n) == n[1] = "pdf"

\* C23: within one call of extract_and_store_content the fallback names
\* pdf_<uuid>_table_<index> given to different tables are pairwise
\* distinct, for every sequence of successful and failed table stores.
C23_FallbackNamesDistinct ==
    \A p \in Procs : \A i, j \in 1..Len(proc[p].started) :
        (i < j /\ IsFallbackName(proc[p].started[i])
               /\ IsFallbackName(proc[p].started[j])) =>
           proc[p].started[i] # proc[p].started[j]

\* the tables passed to _store_table_with_schema are the started ones, in
\* order, and at most the current one is still open
StoredInOrder(p) ==
    /\ IsPrefix(proc[p].finalized, proc[p].started)
    /\ Len(proc[p].started) - Len(proc[p].finalized) \in {0, 1}
    /\ proc[p].pc = "start" => Len(proc[p].finalized) = Len(proc[p].started)

\* a step that appends a continuation fragment to the current table of p
AppendsFragment(p) ==
    /\ proc[p].current.present /\ proc'[p].current.present
    /\ proc'[p].current.fragments = proc[p].current.fragments + 1

\* rows are appended only to a table that was not stored yet
AppendBeforeStore ==
    \A p \in Procs : AppendsFragment(p) =>
        Len(proc[p].finalized) < Len(proc[p].started)

ReportsTable(p) == Len(proc'[p].stored_tables) = Len(proc[p].stored_tables) + 1

InsertedRows(n) ==
    Len(db'[n]) - (IF n \in DOMAIN db THEN Len(db[n]) ELSE 0)

\* C26: for every table listed in an upload result the reported row count
\* equals the number of rows inserted into the relational table, which is
\* the rows_stored value written to the schema registry; rows skipped by
\* validation are not counted.
C26_ReportedRowsAreStoredRows ==
    [][\A p \in Procs : ReportsTable(p) =>
          LET t == proc'[p].stored_tables[Len(proc'[p].stored_tables)]
          IN /\ t.name \in DOMAIN db' /\ t.name \in DOMAIN registry'
             /\ t.rows = InsertedRows(t.name)
             /\ t.rows = registry'[t.name].rows_stored]_vars

-----------------------------------------------------------------------------
(* The lists returned by extract_content of routes/chat.py                  *)

\* C24: extract_content returns table_names and tables of equal length,
\* where table_names[i] is the name assigned when tables[i] was started and
\* the names of different tables are distinct, so that the upload handler's
\* lookup table_names[i-1] names the i-th table.
C24_NamesMatchTables ==
    ext.returned =>
       /\ Len(ext.table_names) = Len(ext.tables)
       /\ \A i \in 1..Len(ext.tables) :
             /\ i <= Len(ext.table_names) /\ ext.table_names[i] = ext.assigned[i]
             /\ ext.lookups[i] = ext.assigned[i]
       /\ \A i, j \in 1..Len(ext.assigned) : i # j => ext.assigned[i] # ext.assigned[j]

-----------------------------------------------------------------------------
(* The schema of the table agent and the schema of the router               *)

\* C27: after an upload registers a new table while the server runs, every
\* later query routed to the table agent is processed against a schema that
\* includes that table: at each process_query the table agent's schema holds
\* every table the router reads from table_schema.json for that query.
C27_AgentSchemaIsCurrent ==
    [][(\E q \in TableQueries : TAProcessQuery(q))
          => _load_table_schema \subseteq ta.schema]_vars

-----------------------------------------------------------------------------
(* Concurrent uploads and the registry file                                 *)

\* C28: when two uploads run concurrently, after both have completed the
\* schema registry file contains the entries of all tables registered by
\* both uploads; a registry write by one upload never removes an entry
\* written by the other.
C28_RegistryKeepsBothUploads ==
    (\A p \in Procs : proc[p].pc = "done") =>
        \A p \in Procs : \A i \in 1..Len(proc[p].started) :
            proc[p].started[i] \in DOMAIN registry

====
